---------------------------- MODULE Spec2Model ----------------------------
(***************************************************************************)
(* policy-router-rs: the policy decision engine (src/policy/engine.rs),    *)
(* the config model and its validator (src/policy/config.rs) and the       *)
(* control daemon with its hot-reloadable config store                     *)
(* (src/bin/policy-routerd.rs).                                            *)
(*                                                                         *)
(* Strings are sequences of ASCII codes, so that trimming, lowercasing,    *)
(* path splitting, suffix tests and the byte order of EgressId are         *)
(* computed as the Rust code computes them.                                *)
(***************************************************************************)
EXTENDS Integers, Sequences, FiniteSets, TLC

(***************************************************************************)
(* Option<T>                                                               *)
(***************************************************************************)
None == [some |-> FALSE]
Some(x) == [some |-> TRUE, val |-> x]

(***************************************************************************)
(* str primitives of the Rust standard library, on ASCII                   *)
(***************************************************************************)
\* char::is_whitespace restricted to ASCII: U+0009..U+000D and U+0020
is_whitespace(c) == c \in 9..13 \/ c = 32

\* the least and the greatest element of a non-empty set of integers
min_of(S) == CHOOSE i \in S : \A j \in S : i <= j
max_of(S) == CHOOSE i \in S : \A j \in S : j <= i

\* str::trim_start: drops the leading whitespace
trim_start(s) ==
    LET keep == {i \in 1..Len(s) : ~is_whitespace(s[i])}
    IN IF keep = {} THEN <<>> ELSE SubSeq(s, min_of(keep), Len(s))

\* str::trim_end: drops the trailing whitespace
trim_end(s) ==
    LET keep == {i \in 1..Len(s) : ~is_whitespace(s[i])}
    IN IF keep = {} THEN <<>> ELSE SubSeq(s, 1, max_of(keep))

\* str::trim
trim(s) == trim_end(trim_start(s))

\* str::trim_end_matches(char): strips every trailing occurrence
trim_end_matches(s, c) ==
    LET keep == {i \in 1..Len(s) : s[i] # c}
    IN IF keep = {} THEN <<>> ELSE SubSeq(s, 1, max_of(keep))

\* str::to_ascii_lowercase: 'A'..'Z' (65..90) become 'a'..'z'
to_ascii_lowercase(s) ==
    [i \in 1..Len(s) |-> IF s[i] \in 65..90 THEN s[i] + 32 ELSE s[i]]

\* str::replace(char, char)
replace(s, from, to) == [i \in 1..Len(s) |-> IF s[i] = from THEN to ELSE s[i]]

\* str::strip_prefix(char)
strip_prefix(s, c) ==
    IF s # <<>> /\ Head(s) = c THEN Some(Tail(s)) ELSE None

starts_with(s, p) == Len(p) <= Len(s) /\ SubSeq(s, 1, Len(p)) = p

\* str::ends_with(&str)
ends_with(s, suf) ==
    Len(suf) <= Len(s) /\ SubSeq(s, Len(s) - Len(suf) + 1, Len(s)) = suf

\* str::find(&str): the 1-based index of the first occurrence, 0 when absent
find(s, pat) ==
    LET hits == {i \in 1..(Len(s) - Len(pat) + 1) : SubSeq(s, i, i + Len(pat) - 1) = pat}
    IN IF hits = {} THEN 0 ELSE CHOOSE i \in hits : \A j \in hits : i <= j

\* str::split_once(&str)
split_once(s, pat) ==
    LET i == find(s, pat)
    IN IF i = 0 THEN None
       ELSE Some(<<SubSeq(s, 1, i - 1), SubSeq(s, i + Len(pat), Len(s))>>)

\* the index of the last occurrence of the char c in s, 0 when absent
rfind(s, c) ==
    LET hits == {i \in 1..Len(s) : s[i] = c}
    IN IF hits = {} THEN 0 ELSE CHOOSE i \in hits : \A j \in hits : j <= i

\* str::rsplit(char).find(|segment| !segment.is_empty()).unwrap_or(""):
\* the last non-empty segment between occurrences of c
rsplit_find_non_empty(s, c) ==
    LET body == trim_end_matches(s, c)
        i == rfind(body, c)
    IN SubSeq(body, i + 1, Len(body))

\* the order of String (derive(Ord) on EgressId): lexicographic on bytes
str_less(a, b) ==
    \E k \in 1..Len(b) :
        /\ k - 1 <= Len(a)
        /\ SubSeq(a, 1, k - 1) = SubSeq(b, 1, k - 1)
        /\ k > Len(a) \/ a[k] < b[k]

\* u16::from_str: an optional '+', then one or more digits, no overflow
digits_value(s, acc) ==
    LET value[i \in 0..Len(s)] ==
            IF i = 0 THEN acc
            ELSE IF value[i - 1] > 65535 THEN value[i - 1]
            ELSE value[i - 1] * 10 + (s[i] - 48)
    IN value[Len(s)]

parse_u16(s) ==
    LET body == IF s # <<>> /\ Head(s) = 43 THEN Tail(s) ELSE s
    IN IF body = <<>> \/ \E i \in 1..Len(body) : body[i] \notin 48..57 THEN None
       ELSE IF digits_value(body, 0) > 65535 THEN None
       ELSE Some(digits_value(body, 0))

\* the keys of a BTreeMap in iteration order (ascending)
sorted_keys(S) ==
    [i \in 1..Cardinality(S) |->
        CHOOSE x \in S : Cardinality({y \in S : str_less(y, x)}) = i - 1]

(***************************************************************************)
(* Result<T, E>                                                            *)
(***************************************************************************)
Ok(v) == [ok |-> TRUE, val |-> v]
Err(e) == [ok |-> FALSE, err |-> e]

(***************************************************************************)
(* `let value = ..;` followed by `body`: value is computed once            *)
(***************************************************************************)
let_in(value, body(_)) == CHOOSE r \in {body(v) : v \in {value}} : TRUE

(***************************************************************************)
(* src/policy/config.rs                                                    *)
(*                                                                         *)
(* AppConfig is [defaults |-> [egress |-> EgressId],                       *)
(*               egress   |-> [EgressId -> EgressSpec]   (a BTreeMap),     *)
(*               rules    |-> [app, domain |-> [EgressId -> Seq(pattern)]]]*)
(* EgressSpec is [kind |-> EgressKind, endpoint |-> Option<String>].       *)
(***************************************************************************)
EgressKind == {"singbox", "socks5", "direct", "block"}

\* the literals of parse_endpoint and validate
STR_SCHEME_SEP == <<58, 47, 47>>                    \* "://"
STR_COLON == <<58>>                                 \* ":"
STR_CLOSE_BRACKET == <<93>>                         \* "]"
STR_SOCKS5 == <<115, 111, 99, 107, 115, 53>>        \* "socks5"

parse_host_port(rest) ==
    LET v6 == strip_prefix(rest, 91)                \* '['
    IN IF v6.some
       THEN LET close == find(v6.val, STR_CLOSE_BRACKET)
            IN IF close = 0 THEN Err("ipv6_no_closing_bracket")
               ELSE LET host == SubSeq(v6.val, 1, close - 1)
                        after == SubSeq(v6.val, close + 1, Len(v6.val))
                        port_str == strip_prefix(after, 58)
                    IN IF ~port_str.some THEN Err("ipv6_no_port")
                       ELSE Ok(<<host, port_str.val>>)
       ELSE LET hp == split_once(rest, STR_COLON)
            IN IF ~hp.some THEN Err("no_port") ELSE Ok(hp.val)

parse_endpoint(endpoint) ==
    let_in(split_once(endpoint, STR_SCHEME_SEP), LAMBDA sr :
      IF ~sr.some THEN Err("no_scheme_separator")
      ELSE IF trim(sr.val[1]) = <<>> THEN Err("empty_scheme")
      ELSE let_in(parse_host_port(sr.val[2]), LAMBDA hp :
        IF ~hp.ok THEN hp
        ELSE IF trim(hp.val[1]) = <<>> THEN Err("empty_host")
        ELSE let_in(parse_u16(hp.val[2]), LAMBDA port :
          IF ~port.some THEN Err("port_not_a_number")
          ELSE IF port.val = 0 THEN Err("port_zero")
          ELSE Ok(<<sr.val[1], hp.val[1], port.val>>))))

\* the body of validate()'s loop over the egress catalogue, for one entry
\* validate_egress without the comparison of the scheme
validate_egress_any_scheme(egress_id, spec) ==
    IF spec.kind \in {"singbox", "socks5"}
    THEN IF ~spec.endpoint.some
         THEN Err([what |-> "requires_endpoint", egress |-> egress_id])
         ELSE let_in(trim(spec.endpoint.val), LAMBDA endpoint :
           IF endpoint = <<>>
           THEN Err([what |-> "empty_endpoint", egress |-> egress_id])
           ELSE let_in(parse_endpoint(endpoint), LAMBDA parsed :
             IF ~parsed.ok
             THEN Err([what |-> "invalid_endpoint", egress |-> egress_id,
                       endpoint |-> endpoint])
             ELSE Ok(<<>>)))
    ELSE IF spec.endpoint.some
         THEN Err([what |-> "must_not_define_endpoint", egress |-> egress_id])
         ELSE Ok(<<>>)

validate_egress(egress_id, spec) ==
    IF spec.kind \in {"singbox", "socks5"}
    THEN IF ~spec.endpoint.some
         THEN Err([what |-> "requires_endpoint", egress |-> egress_id])
         ELSE let_in(trim(spec.endpoint.val), LAMBDA endpoint :
           IF endpoint = <<>>
           THEN Err([what |-> "empty_endpoint", egress |-> egress_id])
           ELSE let_in(parse_endpoint(endpoint), LAMBDA parsed :
             IF ~parsed.ok
             THEN Err([what |-> "invalid_endpoint", egress |-> egress_id,
                       endpoint |-> endpoint])
             ELSE IF parsed.val[1] # STR_SOCKS5
             THEN Err([what |-> "not_socks5_scheme", egress |-> egress_id])
             ELSE Ok(<<>>)))
    ELSE IF spec.endpoint.some
         THEN Err([what |-> "must_not_define_endpoint", egress |-> egress_id])
         ELSE Ok(<<>>)

\* the first empty pattern of a rule table, in (egress id, index) order
\* first_empty_pattern testing the pattern as written, untrimmed
first_empty_pattern_untrimmed(rules, rule_kind) ==
    LET empties(id) == {i \in 1..Len(rules[id]) : rules[id][i] = <<>>}
    IN let_in(SelectSeq(sorted_keys(DOMAIN rules), LAMBDA id : empties(id) # {}),
              LAMBDA bad :
         IF bad = <<>> THEN Ok(<<>>)
         ELSE Err([what |-> "empty_pattern", rule |-> rule_kind,
                   index |-> min_of(empties(bad[1])) - 1, egress |-> bad[1]]))

first_empty_pattern(rules, rule_kind) ==
    LET empties(id) == {i \in 1..Len(rules[id]) : trim(rules[id][i]) = <<>>}
    IN let_in(SelectSeq(sorted_keys(DOMAIN rules), LAMBDA id : empties(id) # {}),
              LAMBDA bad :
         IF bad = <<>> THEN Ok(<<>>)
         ELSE Err([what |-> "empty_pattern", rule |-> rule_kind,
                   index |-> min_of(empties(bad[1])) - 1, egress |-> bad[1]]))

\* validate without its check of defaults.egress
validate_rules_only(self) ==
    LET catalogue == DOMAIN self.egress
        rule_keys == sorted_keys(DOMAIN self.rules.app) \o sorted_keys(DOMAIN self.rules.domain)
    IN let_in(SelectSeq(rule_keys, LAMBDA id : id \notin catalogue), LAMBDA unknown :
         IF unknown # <<>>
         THEN Err([what |-> "unknown_rule_egress", egress |-> unknown[1]])
         ELSE let_in(SelectSeq(sorted_keys(catalogue),
                               LAMBDA id : ~validate_egress(id, self.egress[id]).ok),
                     LAMBDA bad_specs :
           IF bad_specs # <<>>
           THEN validate_egress(bad_specs[1], self.egress[bad_specs[1]])
           ELSE let_in(first_empty_pattern(self.rules.app, "app"), LAMBDA bad_app :
             IF ~bad_app.ok THEN bad_app
             ELSE first_empty_pattern(self.rules.domain, "domain"))))

\* AppConfig::validate
\* validate looking only at the rule keys that have patterns
validate_keys_with_patterns(self) ==
    LET catalogue == DOMAIN self.egress
        with_patterns(rules) == {id \in DOMAIN rules : rules[id] # <<>>}
        rule_keys == sorted_keys(with_patterns(self.rules.app)) \o
                     sorted_keys(with_patterns(self.rules.domain))
    IN IF self.defaults.egress \notin catalogue
       THEN Err([what |-> "unknown_default", egress |-> self.defaults.egress])
       ELSE let_in(SelectSeq(rule_keys, LAMBDA id : id \notin catalogue), LAMBDA unknown :
         IF unknown # <<>>
         THEN Err([what |-> "unknown_rule_egress", egress |-> unknown[1]])
         ELSE let_in(SelectSeq(sorted_keys(catalogue),
                               LAMBDA id : ~validate_egress(id, self.egress[id]).ok),
                     LAMBDA bad_specs :
           IF bad_specs # <<>>
           THEN validate_egress(bad_specs[1], self.egress[bad_specs[1]])
           ELSE let_in(first_empty_pattern(self.rules.app, "app"), LAMBDA bad_app :
             IF ~bad_app.ok THEN bad_app
             ELSE let_in(first_empty_pattern(self.rules.domain, "domain"),
                         LAMBDA bad_domain :
               IF ~bad_domain.ok THEN bad_domain ELSE Ok(<<>>)))))

validate(self) ==
    LET catalogue == DOMAIN self.egress
        rule_keys == sorted_keys(DOMAIN self.rules.app) \o sorted_keys(DOMAIN self.rules.domain)
    IN IF self.defaults.egress \notin catalogue
       THEN Err([what |-> "unknown_default", egress |-> self.defaults.egress])
       ELSE let_in(SelectSeq(rule_keys, LAMBDA id : id \notin catalogue), LAMBDA unknown :
         IF unknown # <<>>
         THEN Err([what |-> "unknown_rule_egress", egress |-> unknown[1]])
         ELSE let_in(SelectSeq(sorted_keys(catalogue),
                               LAMBDA id : ~validate_egress(id, self.egress[id]).ok),
                     LAMBDA bad_specs :
           IF bad_specs # <<>>
           THEN validate_egress(bad_specs[1], self.egress[bad_specs[1]])
           ELSE let_in(first_empty_pattern(self.rules.app, "app"), LAMBDA bad_app :
             IF ~bad_app.ok THEN bad_app
             ELSE let_in(first_empty_pattern(self.rules.domain, "domain"),
                         LAMBDA bad_domain :
               IF ~bad_domain.ok THEN bad_domain ELSE Ok(<<>>)))))

(***************************************************************************)
(* The policy document on disk.  fs::read_to_string fails on a document of *)
(* kind "unreadable", toml::from_str fails on one of kind "malformed", and *)
(* a document of kind "toml" deserializes to its cfg.                      *)
(***************************************************************************)
\* load_from_path without its cfg.validate()? line
load_from_path_unvalidated(doc) ==
    IF doc.kind = "unreadable" THEN Err([what |-> "read_failed"])
    ELSE IF doc.kind = "malformed" THEN Err([what |-> "parse_failed"])
    ELSE Ok(doc.cfg)

\* AppConfig::load_from_path
load_from_path(doc) ==
    IF doc.kind = "unreadable" THEN Err([what |-> "read_failed"])
    ELSE IF doc.kind = "malformed" THEN Err([what |-> "parse_failed"])
    ELSE let_in(validate(doc.cfg), LAMBDA checked :
           IF ~checked.ok THEN checked ELSE Ok(doc.cfg))

(***************************************************************************)
(* src/policy/engine.rs                                                    *)
(***************************************************************************)
Decision(egress, reason) == [egress |-> egress, reason |-> reason]

normalize_process_name(raw) ==
    LET trimmed == trim(raw)
        normalized_path == replace(trimmed, 92, 47)       \* '\\' -> "/"
        base_name == rsplit_find_non_empty(normalized_path, 47)
    IN to_ascii_lowercase(base_name)

\* a pattern that ends the name matches it
find_matching_app_pattern_ends_with(list, normalized_value) ==
    let_in({i \in 1..Len(list) :
               ends_with(normalized_value, normalize_process_name(list[i]))},
           LAMBDA hits : IF hits = {} THEN None ELSE Some(list[min_of(hits)]))

find_matching_app_pattern(list, normalized_value) ==
    let_in({i \in 1..Len(list) : normalize_process_name(list[i]) = normalized_value},
           LAMBDA hits : IF hits = {} THEN None ELSE Some(list[min_of(hits)]))

\* a suffix test on characters alone, with no label boundary
domain_matches_suffix_no_boundary(domain, raw_suffix) ==
    let_in(to_ascii_lowercase(trim_end_matches(trim(raw_suffix), 46)), LAMBDA suffix_raw :
      LET stripped == strip_prefix(suffix_raw, 46)
          suffix == IF stripped.some THEN stripped.val ELSE suffix_raw
      IN IF suffix_raw = <<>> THEN None
         ELSE IF domain = suffix
         THEN Some([pattern |-> trim(raw_suffix), match_kind |-> "Exact"])
         ELSE IF ends_with(domain, suffix)
         THEN Some([pattern |-> trim(raw_suffix), match_kind |-> "Suffix"])
         ELSE None)

domain_matches_suffix(domain, raw_suffix) ==
    let_in(to_ascii_lowercase(trim_end_matches(trim(raw_suffix), 46)), LAMBDA suffix_raw :
      LET stripped == strip_prefix(suffix_raw, 46)
          suffix == IF stripped.some THEN stripped.val ELSE suffix_raw
      IN IF suffix_raw = <<>> THEN None
         ELSE IF domain = suffix
         THEN Some([pattern |-> trim(raw_suffix), match_kind |-> "Exact"])
         ELSE IF ends_with(domain, <<46>> \o suffix)
         THEN Some([pattern |-> trim(raw_suffix), match_kind |-> "Suffix"])
         ELSE None)

\* suffixes.iter().find_map(..): the first pattern of the list that matches
\* the queried domain taken as it was given
domain_matches_any_as_given(suffixes, domain) ==
    let_in(domain, LAMBDA d :
      let_in({i \in 1..Len(suffixes) : domain_matches_suffix(d, suffixes[i]).some},
             LAMBDA hits :
        IF hits = {} THEN None ELSE domain_matches_suffix(d, suffixes[min_of(hits)])))

\* the last pattern of the list that matches in place of the first
domain_matches_any_last_hit(suffixes, domain) ==
    let_in(to_ascii_lowercase(trim_end_matches(trim(domain), 46)), LAMBDA d :
      let_in({i \in 1..Len(suffixes) : domain_matches_suffix(d, suffixes[i]).some},
             LAMBDA hits :
        IF hits = {} THEN None ELSE domain_matches_suffix(d, suffixes[max_of(hits)])))

domain_matches_any(suffixes, domain) ==
    let_in(to_ascii_lowercase(trim_end_matches(trim(domain), 46)), LAMBDA d :
      let_in({i \in 1..Len(suffixes) : domain_matches_suffix(d, suffixes[i]).some},
             LAMBDA hits :
        IF hits = {} THEN None ELSE domain_matches_suffix(d, suffixes[min_of(hits)])))

\* the kind test naming the wrong variant
is_block_egress_direct(cfg, id) ==
    id \in DOMAIN cfg.egress /\ cfg.egress[id].kind = "direct"

is_block_egress(cfg, id) ==
    id \in DOMAIN cfg.egress /\ cfg.egress[id].kind = "block"

kind_rank(kind) ==
    CASE kind = "singbox" -> 0
      [] kind = "socks5" -> 1
      [] kind = "direct" -> 2

\* a comparator that looks at the ids alone
rank_id_less_by_id(cfg, l, r) == str_less(l, r)

\* the comparator of ordered.sort_by: rank, then id
rank_id_less(cfg, l, r) ==
    LET left_rank == kind_rank(cfg.egress[l].kind)
        right_rank == kind_rank(cfg.egress[r].kind)
    IN left_rank < right_rank \/ (left_rank = right_rank /\ str_less(l, r))

\* ordered.sort_by(..): the comparator is a total order on distinct ids
sort_by_rank_id(cfg, S) ==
    [i \in 1..Cardinality(S) |->
        CHOOSE x \in S : Cardinality({y \in S : rank_id_less(cfg, y, x)}) = i - 1]

ordered_non_block_rule_egresses(cfg, rules) ==
    sort_by_rank_id(cfg, {id \in DOMAIN rules :
                            id \in DOMAIN cfg.egress /\ cfg.egress[id].kind # "block"})

\* the last matching block egress in place of the first
choose_block_app_last_hit(cfg, process_name) ==
    let_in(normalize_process_name(process_name), LAMBDA normalized :
      LET blocks == SelectSeq(sorted_keys(DOMAIN cfg.rules.app),
                              LAMBDA id : is_block_egress(cfg, id))
      IN let_in(SelectSeq(blocks, LAMBDA id :
                    find_matching_app_pattern(cfg.rules.app[id], normalized).some),
                LAMBDA hits :
           IF hits = <<>> THEN None
           ELSE Some(<<hits[Len(hits)],
                       find_matching_app_pattern(cfg.rules.app[hits[Len(hits)]],
                                                 normalized).val>>)))

choose_block_app(cfg, process_name) ==
    let_in(normalize_process_name(process_name), LAMBDA normalized :
      LET blocks == SelectSeq(sorted_keys(DOMAIN cfg.rules.app),
                              LAMBDA id : is_block_egress(cfg, id))
      IN let_in(SelectSeq(blocks, LAMBDA id :
                    find_matching_app_pattern(cfg.rules.app[id], normalized).some),
                LAMBDA hits :
           IF hits = <<>> THEN None
           ELSE Some(<<hits[1],
                       find_matching_app_pattern(cfg.rules.app[hits[1]], normalized).val>>)))

choose_block_domain(cfg, domain) ==
    LET blocks == SelectSeq(sorted_keys(DOMAIN cfg.rules.domain),
                            LAMBDA id : is_block_egress(cfg, id))
    IN let_in(SelectSeq(blocks, LAMBDA id :
                  domain_matches_any(cfg.rules.domain[id], domain).some),
              LAMBDA hits :
         IF hits = <<>> THEN None
         ELSE Some(<<hits[1], domain_matches_any(cfg.rules.domain[hits[1]], domain).val>>))

\* decide_block with its two `if let` blocks in the other order
decide_block_domain_first(cfg, process_name, domain) ==
    let_in(IF domain.some THEN choose_block_domain(cfg, domain.val) ELSE None,
           LAMBDA by_domain :
      IF by_domain.some
      THEN Some(Decision(by_domain.val[1],
                         [tag |-> "BlockByDomain", egress |-> by_domain.val[1],
                          pattern |-> by_domain.val[2].pattern,
                          match_kind |-> by_domain.val[2].match_kind]))
      ELSE let_in(IF process_name.some THEN choose_block_app(cfg, process_name.val) ELSE None,
                  LAMBDA by_app :
        IF by_app.some
        THEN Some(Decision(by_app.val[1],
                           [tag |-> "BlockByApp", egress |-> by_app.val[1],
                            pattern |-> by_app.val[2]]))
        ELSE None))

\* decide_block returning early on an absent process name (`let name =
\* process_name?;`), so that the domain is not looked at either
decide_block_needs_name(cfg, process_name, domain) ==
    IF ~process_name.some THEN None
    ELSE let_in(choose_block_app(cfg, process_name.val), LAMBDA by_app :
      IF by_app.some
      THEN Some(Decision(by_app.val[1],
                         [tag |-> "BlockByApp", egress |-> by_app.val[1],
                          pattern |-> by_app.val[2]]))
      ELSE let_in(IF domain.some THEN choose_block_domain(cfg, domain.val) ELSE None,
                  LAMBDA by_domain :
        IF by_domain.some
        THEN Some(Decision(by_domain.val[1],
                           [tag |-> "BlockByDomain", egress |-> by_domain.val[1],
                            pattern |-> by_domain.val[2].pattern,
                            match_kind |-> by_domain.val[2].match_kind]))
        ELSE None))

\* decide_block walking the block egresses in id order, each with its app
\* patterns and its domain patterns: the match of the least egress id wins
decide_block_least_id(cfg, process_name, domain) ==
    let_in(IF process_name.some THEN choose_block_app(cfg, process_name.val) ELSE None,
           LAMBDA by_app :
      let_in(IF domain.some THEN choose_block_domain(cfg, domain.val) ELSE None,
             LAMBDA by_domain :
        IF by_app.some /\ ~(by_domain.some /\ str_less(by_domain.val[1], by_app.val[1]))
        THEN Some(Decision(by_app.val[1],
                           [tag |-> "BlockByApp", egress |-> by_app.val[1],
                            pattern |-> by_app.val[2]]))
        ELSE IF by_domain.some
        THEN Some(Decision(by_domain.val[1],
                           [tag |-> "BlockByDomain", egress |-> by_domain.val[1],
                            pattern |-> by_domain.val[2].pattern,
                            match_kind |-> by_domain.val[2].match_kind]))
        ELSE None))

decide_block(cfg, process_name, domain) ==
    let_in(IF process_name.some THEN choose_block_app(cfg, process_name.val) ELSE None,
           LAMBDA by_app :
      IF by_app.some
      THEN Some(Decision(by_app.val[1],
                         [tag |-> "BlockByApp", egress |-> by_app.val[1],
                          pattern |-> by_app.val[2]]))
      ELSE let_in(IF domain.some THEN choose_block_domain(cfg, domain.val) ELSE None,
                  LAMBDA by_domain :
        IF by_domain.some
        THEN Some(Decision(by_domain.val[1],
                           [tag |-> "BlockByDomain", egress |-> by_domain.val[1],
                            pattern |-> by_domain.val[2].pattern,
                            match_kind |-> by_domain.val[2].match_kind]))
        ELSE None))

choose_domain(domain, cfg) ==
    LET rules == cfg.rules.domain
    IN let_in(SelectSeq(ordered_non_block_rule_egresses(cfg, rules),
                        LAMBDA id : domain_matches_any(rules[id], domain).some),
              LAMBDA hits :
         IF hits = <<>> THEN None
         ELSE let_in(domain_matches_any(rules[hits[1]], domain).val, LAMBDA m :
                Some(Decision(hits[1],
                              [tag |-> "DomainRule", egress |-> hits[1],
                               pattern |-> m.pattern, match_kind |-> m.match_kind]))))

decide_domain(cfg, domain) ==
    IF ~domain.some THEN None ELSE choose_domain(domain.val, cfg)

choose_app(process_name, cfg) ==
    LET rules == cfg.rules.app
    IN let_in(normalize_process_name(process_name), LAMBDA normalized :
         let_in(SelectSeq(ordered_non_block_rule_egresses(cfg, rules),
                          LAMBDA id : find_matching_app_pattern(rules[id], normalized).some),
                LAMBDA hits :
           IF hits = <<>> THEN None
           ELSE Some(Decision(hits[1],
                              [tag |-> "AppRule", egress |-> hits[1],
                               pattern |->
                                 find_matching_app_pattern(rules[hits[1]], normalized).val]))))

decide_app(cfg, process_name) ==
    IF ~process_name.some THEN None ELSE choose_app(process_name.val, cfg)

\* a fallback that takes the first egress of the catalogue
decide_default_first_key(cfg) ==
    let_in(sorted_keys(DOMAIN cfg.egress)[1], LAMBDA first :
      Decision(first, [tag |-> "Default", egress |-> first]))

decide_default(cfg) ==
    Decision(cfg.defaults.egress, [tag |-> "Default", egress |-> cfg.defaults.egress])

\* decide with the domain rules consulted before the block rules
decide_domain_before_block(cfg, process_name, domain) ==
    let_in(decide_domain(cfg, domain), LAMBDA by_domain :
      IF by_domain.some THEN by_domain.val
      ELSE let_in(decide_block(cfg, process_name, domain), LAMBDA block :
        IF block.some THEN block.val
        ELSE let_in(decide_app(cfg, process_name), LAMBDA by_app :
          IF by_app.some THEN by_app.val
          ELSE decide_default(cfg))))

\* decide with the app rules consulted before the domain rules
decide_app_before_domain(cfg, process_name, domain) ==
    let_in(decide_block(cfg, process_name, domain), LAMBDA block :
      IF block.some THEN block.val
      ELSE let_in(decide_app(cfg, process_name), LAMBDA by_app :
        IF by_app.some THEN by_app.val
        ELSE let_in(decide_domain(cfg, domain), LAMBDA by_domain :
          IF by_domain.some THEN by_domain.val
          ELSE decide_default(cfg))))

\* decide_block(..).or_else(decide_domain).or_else(decide_app).unwrap_or_else(decide_default)
decide(cfg, process_name, domain) ==
    let_in(decide_block(cfg, process_name, domain), LAMBDA block :
      IF block.some THEN block.val
      ELSE let_in(decide_domain(cfg, domain), LAMBDA by_domain :
        IF by_domain.some THEN by_domain.val
        ELSE let_in(decide_app(cfg, process_name), LAMBDA by_app :
          IF by_app.some THEN by_app.val
          ELSE decide_default(cfg))))

(***************************************************************************)
(* Policy documents and requests the daemon is run against                 *)
(***************************************************************************)
\* egress ids "b", "n", "v"; process names and domains of the requests
ID_B == <<98>>
ID_N == <<110>>
ID_V == <<118>>
ID_Z == <<122>>
EP_SOCKS_H_1 == STR_SOCKS5 \o STR_SCHEME_SEP \o <<104, 58, 49>>                  \* "socks5://h:1"
EP_SOCKS_V6_80 == STR_SOCKS5 \o STR_SCHEME_SEP \o <<91, 58, 58, 49, 93, 58, 56, 48>>  \* "socks5://[::1]:80"
EP_HTTP_H_1 == <<104, 116, 116, 112>> \o STR_SCHEME_SEP \o <<104, 58, 49>>       \* "http://h:1"
PAT_X == <<120>>                                    \* "x"
PAT_D == <<100>>                                    \* "d"
PAT_BLANK == <<32>>                                 \* " "
NAME_PATH_X == <<67, 58, 92, 88>>                   \* "C:\X"
DOMAIN_S_D == <<83, 46, 100, 46>>                   \* "S.d."

\* defaults v; v = singbox, b = block, n = direct; app rule b = ["x"],
\* domain rule v = ["d"]
CfgA ==
    [defaults |-> [egress |-> ID_V],
     egress |-> (ID_V :> [kind |-> "singbox", endpoint |-> Some(EP_SOCKS_H_1)]) @@
                (ID_B :> [kind |-> "block", endpoint |-> None]) @@
                (ID_N :> [kind |-> "direct", endpoint |-> None]),
     rules |-> [app |-> (ID_B :> <<PAT_X>>),
                domain |-> (ID_V :> <<PAT_D>>)]]

\* defaults n; n = direct, v = socks5; app rule v = ["x"], domain rule n = []
CfgB ==
    [defaults |-> [egress |-> ID_N],
     egress |-> (ID_N :> [kind |-> "direct", endpoint |-> None]) @@
                (ID_V :> [kind |-> "socks5", endpoint |-> Some(EP_SOCKS_V6_80)]),
     rules |-> [app |-> (ID_V :> <<PAT_X>>),
                domain |-> (ID_N :> <<>>)]]

\* a document that deserializes and then fails validate()
\* v's endpoint is "http://h:1", and rules.domain has the undeclared key z
CfgBadScheme ==
    [CfgA EXCEPT !.egress[ID_V].endpoint = Some(EP_HTTP_H_1),
                 !.rules.domain = (ID_Z :> <<PAT_BLANK>>)]

Toml(c) == [kind |-> "toml", cfg |-> c]

Docs ==
    {[kind |-> "unreadable"], [kind |-> "malformed"],
     Toml(CfgA), Toml(CfgB), Toml(CfgBadScheme)}

ExplainRequests ==
    {[type |-> "explain", process |-> Some(NAME_PATH_X), domain |-> Some(DOMAIN_S_D)]}

\* ipc::Request
Requests ==
    {[type |-> "status"], [type |-> "reload"], [type |-> "stop"],
     [type |-> "diagnostics"]} \cup ExplainRequests

\* connections the accept loop takes in one run
MaxConns == 2

\* the handle_conn threads that are alive at the same time
Slots == {1, 2}

(***************************************************************************)
(* src/bin/policy-routerd.rs                                               *)
(***************************************************************************)
VARIABLES
    file,           \* the policy document at State.config_path
    cfg,            \* State.cfg: ArcSwap<AppConfig>
    running,        \* State.running
    ipc_requests,   \* State.ipc_requests
    reload_ok,      \* State.reload_ok
    reload_err,     \* State.reload_err
    main_pc,        \* main(): "loop" | "accept" | "exited"
    conns,          \* the live handle_conn threads, by slot
    accepted,       \* history: how many connections accept() has returned
    received,       \* history: how many Requests read_json_line has returned
    latest,         \* history: the config handed to the latest State.cfg store
    call            \* one call of engine::decide with its result

vars == <<file, cfg, running, ipc_requests, reload_ok, reload_err, main_pc,
          conns, accepted, received, latest, call>>

NoCall == [called |-> FALSE]

\* State.config_path and State.socket, fixed at startup
config_path == "config.toml"
socket_label == "policy-routerd.sock"

\* no thread in the slot
Idle == [pc |-> "idle"]

\* a thread just spawned for an accepted connection.  History: live holds the
\* configs State.cfg has held since the accept, fresh the configs handed to
\* State.cfg by the latest store before the accept and by every store since;
\* after holds the threads whose reload had read the policy file when this
\* one read it, last tells that the latest State.cfg store is this thread's.
NewConn ==
    [pc |-> "read", reads |-> 0, writes |-> 0,
     req |-> None, raw |-> None, next |-> None,
     diag |-> <<>>, resp |-> None,
     live |-> {cfg}, fresh |-> {latest},
     after |-> {}, last |-> FALSE]

\* ArcSwap::load
cfg_load == cfg

\* main(): load_from_path, State construction
Init ==
    /\ file \in Docs
    /\ load_from_path(file).ok
    /\ cfg = load_from_path(file).val
    /\ running = TRUE
    /\ ipc_requests = 0
    /\ reload_ok = 0
    /\ reload_err = 0
    /\ main_pc = "loop"
    /\ conns = [s \in Slots |-> Idle]
    /\ accepted = 0
    /\ received = 0
    /\ latest = cfg
    /\ call = NoCall

\* the process is alive until main returns
Alive == main_pc # "exited"

\* the operator edits the policy file
WriteFile(d) ==
    /\ Alive
    /\ d # file
    /\ file' = d
    /\ UNCHANGED <<cfg, running, ipc_requests, reload_ok, reload_err, main_pc,
                   conns, accepted, received, latest, call>>

\* the ctrlc handler
Interrupt ==
    /\ Alive
    /\ running
    /\ running' = FALSE
    /\ UNCHANGED <<file, cfg, ipc_requests, reload_ok, reload_err, main_pc,
                   conns, accepted, received, latest, call>>

\* the loop condition taken as true whatever the flag holds
MainCheckRunning_ignores_flag ==
    /\ main_pc = "loop"
    /\ main_pc' = "accept"
    /\ UNCHANGED <<file, cfg, running, ipc_requests, reload_ok, reload_err,
                   conns, accepted, received, latest, call>>

\* while state.running.load(..): false ends the loop, and main returns
MainCheckRunning ==
    /\ main_pc = "loop"
    /\ main_pc' = IF running THEN "accept" ELSE "exited"
    /\ UNCHANGED <<file, cfg, running, ipc_requests, reload_ok, reload_err,
                   conns, accepted, received, latest, call>>

\* listener.accept() = Ok(conn): thread::spawn
MainAcceptOk ==
    /\ main_pc = "accept"
    /\ accepted < MaxConns
    /\ \E s \in Slots :
          /\ conns[s] = Idle
          /\ \A t \in Slots : t < s => conns[t] # Idle
          /\ conns' = [conns EXCEPT ![s] = NewConn]
    /\ accepted' = accepted + 1
    /\ main_pc' = "loop"
    /\ UNCHANGED <<file, cfg, running, ipc_requests, reload_ok, reload_err,
                   latest, call, received>>

\* listener.accept() = Err(WouldBlock): sleep 20 ms
MainAcceptWouldBlock ==
    /\ main_pc = "accept"
    /\ main_pc' = "loop"
    /\ UNCHANGED <<file, cfg, running, ipc_requests, reload_ok, reload_err,
                   conns, accepted, received, latest, call>>

\* an accept error ending the accept loop
MainAcceptError_exits ==
    /\ main_pc = "accept"
    /\ main_pc' = "exited"
    /\ UNCHANGED <<file, cfg, running, ipc_requests, reload_ok, reload_err,
                   conns, accepted, received, latest, call>>

\* listener.accept() = Err(e): warn, sleep 50 ms
MainAcceptError ==
    /\ main_pc = "accept"
    /\ main_pc' = "loop"
    /\ UNCHANGED <<file, cfg, running, ipc_requests, reload_ok, reload_err,
                   conns, accepted, received, latest, call>>

At(c, pc) == Alive /\ conns[c].pc = pc

\* handle_conn: read_json_line gives a Request
HandleConnRead(c, r) ==
    /\ At(c, "read")
    /\ conns' = [conns EXCEPT ![c].req = Some(r), ![c].reads = @ + 1,
                              ![c].pc = "count"]
    /\ received' = received + 1
    /\ UNCHANGED <<file, cfg, running, ipc_requests, reload_ok, reload_err,
                   main_pc, accepted, latest, call>>

\* a read failure taken as fatal: the worker stops the daemon
HandleConnReadErr_stops(c) ==
    /\ At(c, "read")
    /\ running' = FALSE
    /\ conns' = [conns EXCEPT ![c] = Idle]
    /\ UNCHANGED <<file, cfg, ipc_requests, reload_ok, reload_err,
                   main_pc, accepted, received, latest, call>>

\* handle_conn: read_line fails in read_json_line: `?` returns, the stream is dropped
HandleConnReadErr(c) ==
    /\ At(c, "read")
    /\ conns' = [conns EXCEPT ![c] = Idle]
    /\ UNCHANGED <<file, cfg, running, ipc_requests, reload_ok, reload_err,
                   main_pc, accepted, received, latest, call>>

\* read_json_line: read_line gives a line that serde_json::from_str::<Request>
\* does not accept
HandleConnReadUndecodable(c) ==
    /\ At(c, "read")
    /\ conns' = [conns EXCEPT ![c].pc = "undecodable"]
    /\ UNCHANGED <<file, cfg, running, ipc_requests, reload_ok, reload_err,
                   main_pc, accepted, received, latest, call>>

\* handle_conn: read_json_line returns the decoding error: `?` returns, the
\* stream is dropped
HandleConnDecodeErr(c) ==
    /\ At(c, "undecodable")
    /\ conns' = [conns EXCEPT ![c] = Idle]
    /\ UNCHANGED <<file, cfg, running, ipc_requests, reload_ok, reload_err,
                   main_pc, accepted, received, latest, call>>

\* the counter updated by a load and a store: of two workers that loaded the
\* same value, the first to store adds nothing that lasts
HandleConnCount_load_store(c) ==
    /\ At(c, "count")
    /\ ipc_requests' =
          IF \E d \in Slots \ {c} : conns[d] # Idle /\ conns[d].pc = "count"
          THEN ipc_requests ELSE ipc_requests + 1
    /\ conns' = [conns EXCEPT ![c].pc = "dispatch"]
    /\ UNCHANGED <<file, cfg, running, reload_ok, reload_err, main_pc,
                   accepted, received, latest, call>>

\* the counter left alone for a Reload request
HandleConnCount_skips_reload(c) ==
    /\ At(c, "count")
    /\ ipc_requests' = IF conns[c].req.val.type = "reload" THEN ipc_requests
                       ELSE ipc_requests + 1
    /\ conns' = [conns EXCEPT ![c].pc = "dispatch"]
    /\ UNCHANGED <<file, cfg, running, reload_ok, reload_err, main_pc,
                   accepted, received, latest, call>>

\* handle_conn: state.ipc_requests.fetch_add(1)
HandleConnCount(c) ==
    /\ At(c, "count")
    /\ ipc_requests' = ipc_requests + 1
    /\ conns' = [conns EXCEPT ![c].pc = "dispatch"]
    /\ UNCHANGED <<file, cfg, running, reload_ok, reload_err, main_pc,
                   accepted, received, latest, call>>

egress_infos(c) ==
    LET ids == sorted_keys(DOMAIN c.egress)
    IN [i \in 1..Len(ids) |->
           [id |-> ids[i], kind |-> c.egress[ids[i]].kind,
            endpoint |-> c.egress[ids[i]].endpoint]]

build_status ==
    LET snapshot == cfg_load
    IN [type |-> "ok_status", config_path |-> config_path,
        egress |-> egress_infos(snapshot)]

\* handle_request: Request::Status
HandleStatus(c) ==
    /\ At(c, "dispatch")
    /\ conns[c].req.val.type = "status"
    /\ conns' = [conns EXCEPT ![c].resp = Some(build_status), ![c].pc = "write"]
    /\ UNCHANGED <<file, cfg, running, ipc_requests, reload_ok, reload_err,
                   main_pc, accepted, received, latest, call>>

\* handle_request: Request::Stop
HandleStop(c) ==
    /\ At(c, "dispatch")
    /\ conns[c].req.val.type = "stop"
    /\ running' = FALSE
    /\ conns' = [conns EXCEPT ![c].resp = Some([type |-> "ok_stop"]), ![c].pc = "write"]
    /\ UNCHANGED <<file, cfg, ipc_requests, reload_ok, reload_err, main_pc,
                   accepted, received, latest, call>>

\* reload_config: AppConfig::load_from_path(&state.config_path), with_context
ReloadLoad(c) ==
    /\ At(c, "dispatch")
    /\ conns[c].req.val.type = "reload"
    /\ conns' = [conns EXCEPT ![c].raw = Some(file),
                              ![c].next = Some(load_from_path(file)),
                              ![c].after = {d \in Slots \ {c} :
                                              conns[d] # Idle /\ conns[d].raw.some},
                              ![c].pc = "reload_loaded"]
    /\ UNCHANGED <<file, cfg, running, ipc_requests, reload_ok, reload_err,
                   main_pc, accepted, received, latest, call>>

\* the error reload_config returns, and the response handle_request makes of it
reload_error(e) ==
    [context |-> "failed to load config", path |-> config_path, source |-> e]

\* the response to a failed reload without the config path in its message
reload_failed_response_no_path(e) ==
    [type |-> "err",
     message |-> [text |-> "reload failed", path |-> "", error |-> e]]

reload_failed_response(e) ==
    [type |-> "err",
     message |-> [text |-> "reload failed for", path |-> config_path, error |-> e]]

\* ReloadErr counting the failure in reload_ok
ReloadErr_counts_ok(c) ==
    /\ At(c, "reload_loaded")
    /\ ~conns[c].next.val.ok
    /\ reload_ok' = reload_ok + 1
    /\ conns' = [conns EXCEPT
                   ![c].resp = Some(reload_failed_response(reload_error(conns[c].next.val.err))),
                   ![c].pc = "write"]
    /\ UNCHANGED <<file, cfg, running, ipc_requests, reload_err, main_pc,
                   accepted, received, latest, call>>

\* reload_config, Err(err): reload_err.fetch_add(1); return Err(err)
ReloadErr(c) ==
    /\ At(c, "reload_loaded")
    /\ ~conns[c].next.val.ok
    /\ reload_err' = reload_err + 1
    /\ conns' = [conns EXCEPT
                   ![c].resp = Some(reload_failed_response(reload_error(conns[c].next.val.err))),
                   ![c].pc = "write"]
    /\ UNCHANGED <<file, cfg, running, ipc_requests, reload_ok, main_pc,
                   accepted, received, latest, call>>

\* ReloadStore without the store: State.cfg keeps the old config
ReloadStore_lost(c) ==
    /\ At(c, "reload_loaded")
    /\ conns[c].next.val.ok
    /\ latest' = conns[c].next.val.val
    /\ conns' = [s \in Slots |->
                   IF conns[s] = Idle THEN Idle
                   ELSE [conns[s] EXCEPT
                           !.live = @ \cup {conns[c].next.val.val},
                           !.fresh = @ \cup {conns[c].next.val.val},
                           !.last = (s = c),
                           !.pc = IF s = c THEN "reload_stored" ELSE @]]
    /\ UNCHANGED <<file, cfg, running, ipc_requests, reload_ok, reload_err, main_pc,
                   accepted, received, call>>

\* ReloadStore writing the new catalogue into the live config in place, the
\* defaults and rules not yet
ReloadStore_torn(c) ==
    /\ At(c, "reload_loaded")
    /\ conns[c].next.val.ok
    /\ cfg' = [cfg EXCEPT !.egress = conns[c].next.val.val.egress]
    /\ latest' = conns[c].next.val.val
    /\ conns' = [s \in Slots |->
                   IF conns[s] = Idle THEN Idle
                   ELSE [conns[s] EXCEPT
                           !.live = @ \cup {conns[c].next.val.val},
                           !.fresh = @ \cup {conns[c].next.val.val},
                           !.last = (s = c),
                           !.pc = IF s = c THEN "reload_stored" ELSE @]]
    /\ UNCHANGED <<file, running, ipc_requests, reload_ok, reload_err, main_pc,
                   accepted, received, call>>

\* ReloadStore giving way to a store made since this reload read the file:
\* the config is not published when another reload has published meanwhile
ReloadStore_gives_way(c) ==
    /\ At(c, "reload_loaded")
    /\ conns[c].next.val.ok
    /\ LET raced == \E d \in Slots \ {c} : conns[d] # Idle /\ conns[d].last
           published == IF raced THEN cfg ELSE conns[c].next.val.val
       IN /\ cfg' = published
          /\ latest' = published
          /\ conns' = [s \in Slots |->
                         IF conns[s] = Idle THEN Idle
                         ELSE [conns[s] EXCEPT
                                 !.live = @ \cup {published},
                                 !.fresh = @ \cup {published},
                                 !.last = (s = c),
                                 !.pc = IF s = c THEN "reload_stored" ELSE @]]
    /\ UNCHANGED <<file, running, ipc_requests, reload_ok, reload_err, main_pc,
                   accepted, received, call>>

\* reload_config, Ok(cfg): state.cfg.store(Arc::new(next))
ReloadStore(c) ==
    /\ At(c, "reload_loaded")
    /\ conns[c].next.val.ok
    /\ cfg' = conns[c].next.val.val
    /\ latest' = conns[c].next.val.val
    /\ conns' = [s \in Slots |->
                   IF conns[s] = Idle THEN Idle
                   ELSE [conns[s] EXCEPT
                           !.live = @ \cup {conns[c].next.val.val},
                           !.fresh = @ \cup {conns[c].next.val.val},
                           !.last = (s = c),
                           !.pc = IF s = c THEN "reload_stored" ELSE @]]
    /\ UNCHANGED <<file, running, ipc_requests, reload_ok, reload_err, main_pc,
                   accepted, received, call>>

\* ReloadCountOk counting the success in both counters
ReloadCountOk_both(c) ==
    /\ At(c, "reload_stored")
    /\ reload_ok' = reload_ok + 1
    /\ reload_err' = reload_err + 1
    /\ conns' = [conns EXCEPT ![c].resp = Some([type |-> "ok_reload"]), ![c].pc = "write"]
    /\ UNCHANGED <<file, cfg, running, ipc_requests, main_pc, accepted, received,
                   latest, call>>

\* reload_config: state.reload_ok.fetch_add(1); Ok(())
ReloadCountOk(c) ==
    /\ At(c, "reload_stored")
    /\ reload_ok' = reload_ok + 1
    /\ conns' = [conns EXCEPT ![c].resp = Some([type |-> "ok_reload"]), ![c].pc = "write"]
    /\ UNCHANGED <<file, cfg, running, ipc_requests, reload_err, main_pc,
                   accepted, received, latest, call>>

map_source(reason) ==
    CASE reason.tag = "BlockByApp" -> "block_app"
      [] reason.tag = "BlockByDomain" -> "block_domain"
      [] reason.tag = "AppRule" -> "app_rule"
      [] reason.tag = "DomainRule" -> "domain_rule"
      [] reason.tag = "Default" -> "default"

map_rule_egress(reason) == reason.egress

map_matcher_kind(match_kind) ==
    CASE match_kind = "Exact" -> "exact"
      [] match_kind = "Suffix" -> "suffix"

\* map_matcher reporting every match as exact
map_matcher_always_exact(reason) ==
    CASE reason.tag \in {"BlockByApp", "AppRule", "BlockByDomain", "DomainRule"} ->
            Some([type |-> "exact", pattern |-> reason.pattern])
      [] reason.tag = "Default" -> None

map_matcher(reason) ==
    CASE reason.tag \in {"BlockByApp", "AppRule"} ->
            Some([type |-> "exact", pattern |-> reason.pattern])
      [] reason.tag \in {"BlockByDomain", "DomainRule"} ->
            Some([type |-> map_matcher_kind(reason.match_kind), pattern |-> reason.pattern])
      [] reason.tag = "Default" -> None

\* DecisionReason::to_human: the sentence's template and what it interpolates
to_human(reason) ==
    CASE reason.tag = "BlockByApp" ->
            [text |-> "blocked: app exact match '{pattern}' -> egress '{egress}' has highest priority",
             pattern |-> Some(reason.pattern), mk |-> None, egress |-> reason.egress]
      [] reason.tag = "BlockByDomain" ->
            [text |-> "blocked: domain {mk} match '{pattern}' -> egress '{egress}' has highest priority",
             pattern |-> Some(reason.pattern),
             mk |-> Some(map_matcher_kind(reason.match_kind)), egress |-> reason.egress]
      [] reason.tag = "AppRule" ->
            [text |-> "app rule: exact match '{pattern}' -> egress '{egress}'",
             pattern |-> Some(reason.pattern), mk |-> None, egress |-> reason.egress]
      [] reason.tag = "DomainRule" ->
            [text |-> "domain rule: {mk} match '{pattern}' -> egress '{egress}'",
             pattern |-> Some(reason.pattern),
             mk |-> Some(map_matcher_kind(reason.match_kind)), egress |-> reason.egress]
      [] reason.tag = "Default" ->
            [text |-> "default: egress '{egress}' (no rules matched)",
             pattern |-> None, mk |-> None, egress |-> reason.egress]

\* explain: decide() is evaluated once and its Decision is mapped to DecisionInfo
explain(process, domain) ==
    LET info(decision) ==
            [decision |->
                [egress |-> decision.egress,
                 reason |-> to_human(decision.reason),
                 source |-> map_source(decision.reason),
                 rule_egress |-> Some(map_rule_egress(decision.reason)),
                 matcher |-> map_matcher(decision.reason)]]
    IN let_in(decide(cfg_load, process, domain), info)

\* handle_request: Request::Explain, handle_explain
HandleExplain(c) ==
    /\ At(c, "dispatch")
    /\ conns[c].req.val.type = "explain"
    /\ conns' = [conns EXCEPT
                   ![c].resp = Some([type |-> "ok_explain"] @@
                                    explain(conns[c].req.val.process, conns[c].req.val.domain)),
                   ![c].pc = "write"]
    /\ UNCHANGED <<file, cfg, running, ipc_requests, reload_ok, reload_err,
                   main_pc, accepted, received, latest, call>>

\* build_diagnostics: state.cfg.load(), cfg.egress.len()
DiagLoadCfg(c) ==
    /\ At(c, "dispatch")
    /\ conns[c].req.val.type = "diagnostics"
    /\ conns' = [conns EXCEPT ![c].diag = <<Cardinality(DOMAIN cfg_load.egress)>>,
                              ![c].pc = "diag_running"]
    /\ UNCHANGED <<file, cfg, running, ipc_requests, reload_ok, reload_err,
                   main_pc, accepted, received, latest, call>>

\* build_diagnostics: the next atomic load, in field order
DiagLoad(c, pc, value, next_pc) ==
    /\ At(c, pc)
    /\ conns' = [conns EXCEPT ![c].diag = Append(@, value), ![c].pc = next_pc]
    /\ UNCHANGED <<file, cfg, running, ipc_requests, reload_ok, reload_err,
                   main_pc, accepted, received, latest, call>>

DiagLoadRunning(c) == DiagLoad(c, "diag_running", running, "diag_requests")

DiagLoadRequests(c) == DiagLoad(c, "diag_requests", ipc_requests, "diag_reload_ok")

DiagLoadReloadOk(c) == DiagLoad(c, "diag_reload_ok", reload_ok, "diag_reload_err")

\* DiagLoadReloadErr reading the failure counter with swap(0): the read resets it
DiagLoadReloadErr_swap(c) ==
    /\ At(c, "diag_reload_err")
    /\ reload_err' = 0
    /\ conns' = [conns EXCEPT
                   ![c].resp = Some([type |-> "ok_diagnostics",
                                     config_path |-> config_path,
                                     socket |-> socket_label,
                                     egress_count |-> conns[c].diag[1],
                                     running |-> conns[c].diag[2],
                                     ipc_requests |-> conns[c].diag[3],
                                     reload_ok |-> conns[c].diag[4],
                                     reload_err |-> reload_err]),
                   ![c].diag = <<>>,
                   ![c].pc = "write"]
    /\ UNCHANGED <<file, cfg, running, ipc_requests, reload_ok,
                   main_pc, accepted, received, latest, call>>

\* build_diagnostics: reload_err.load(), and the DiagnosticsResponse
DiagLoadReloadErr(c) ==
    /\ At(c, "diag_reload_err")
    /\ conns' = [conns EXCEPT
                   ![c].resp = Some([type |-> "ok_diagnostics",
                                     config_path |-> config_path,
                                     socket |-> socket_label,
                                     egress_count |-> conns[c].diag[1],
                                     running |-> conns[c].diag[2],
                                     ipc_requests |-> conns[c].diag[3],
                                     reload_ok |-> conns[c].diag[4],
                                     reload_err |-> reload_err]),
                   ![c].diag = <<>>,
                   ![c].pc = "write"]
    /\ UNCHANGED <<file, cfg, running, ipc_requests, reload_ok, reload_err,
                   main_pc, accepted, received, latest, call>>

\* the worker reading the next request on the same connection after the response
HandleConnWrite_keep_alive(c) ==
    /\ At(c, "write")
    /\ conns' = [conns EXCEPT ![c].writes = @ + 1, ![c].pc = "read"]
    /\ UNCHANGED <<file, cfg, running, ipc_requests, reload_ok, reload_err,
                   main_pc, accepted, received, latest, call>>

\* handle_conn: write_json_line(&mut conn, &resp) has written the response;
\* nothing reads the locals of the thread after it
HandleConnWrite(c) ==
    /\ At(c, "write")
    /\ conns' = [conns EXCEPT ![c] = [NewConn EXCEPT !.pc = "written",
                                                     !.reads = conns[c].reads,
                                                     !.writes = conns[c].writes + 1,
                                                     !.live = {},
                                                     !.fresh = {}]]
    /\ UNCHANGED <<file, cfg, running, ipc_requests, reload_ok, reload_err,
                   main_pc, accepted, received, latest, call>>

\* handle_conn: Ok(()), the stream is dropped and the thread ends
HandleConnReturn(c) ==
    /\ At(c, "written")
    /\ conns' = [conns EXCEPT ![c] = Idle]
    /\ UNCHANGED <<file, cfg, running, ipc_requests, reload_ok, reload_err,
                   main_pc, accepted, received, latest, call>>

\* handle_conn: write_json_line fails: `?` returns, the stream is dropped
HandleConnWriteErr(c) ==
    /\ At(c, "write")
    /\ conns' = [conns EXCEPT ![c] = Idle]
    /\ UNCHANGED <<file, cfg, running, ipc_requests, reload_ok, reload_err,
                   main_pc, accepted, received, latest, call>>

Worker(c) ==
    \/ \E r \in Requests : HandleConnRead(c, r)
    \/ HandleConnReadErr(c)
    \/ HandleConnReadUndecodable(c)
    \/ HandleConnDecodeErr(c)
    \/ HandleConnCount(c)
    \/ HandleStatus(c)
    \/ HandleStop(c)
    \/ ReloadLoad(c)
    \/ ReloadErr(c)
    \/ ReloadStore(c)
    \/ ReloadCountOk(c)
    \/ HandleExplain(c)
    \/ DiagLoadCfg(c)
    \/ DiagLoadRunning(c)
    \/ DiagLoadRequests(c)
    \/ DiagLoadReloadOk(c)
    \/ DiagLoadReloadErr(c)
    \/ HandleConnWrite(c)
    \/ HandleConnWriteErr(c)
    \/ HandleConnReturn(c)

Next ==
    \/ \E d \in Docs : WriteFile(d)
    \/ Interrupt
    \/ MainCheckRunning
    \/ MainAcceptOk
    \/ MainAcceptWouldBlock
    \/ MainAcceptError
    \/ \E c \in Slots : Worker(c)

Spec == Init /\ [][Next]_vars

\* the main thread: the loop condition and the non-blocking accept with its
\* three outcomes, each of which comes back to the loop after a bounded sleep
MainLoop ==
    \/ MainCheckRunning
    \/ MainAcceptOk
    \/ MainAcceptWouldBlock
    \/ MainAcceptError

\* the daemon with its main thread scheduled: the thread is never blocked,
\* so it takes its next step
FairSpec == Spec /\ WF_vars(MainLoop)

(***************************************************************************)
(* decide() on its own: every validated config of a small catalogue, and   *)
(* every input of a small set of process names and domains                 *)
(***************************************************************************)
\* egress ids "B" < "a" < "ab" in the byte order of String
ID_UPPER_B == <<66>>
ID_A == <<97>>
ID_AB == <<97, 98>>
EgressIds == {ID_UPPER_B, ID_A, ID_AB}

PAT_UPPER_Y == <<89>>                               \* "Y"
PAT_DOT_S_D_DOT == <<46, 83, 46, 68, 46>>           \* ".S.D."
NAME_Y == <<121>>                                   \* "y"
DOMAIN_D == <<100>>                                 \* "d"

\* the pattern lists a rule key can carry
AppLists == <<(<<PAT_X>>), (<<PAT_UPPER_Y>>)>>
DomainLists == <<(<<PAT_D>>), (<<PAT_DOT_S_D_DOT>>)>>

ProcessNames == {None, Some(NAME_PATH_X), Some(NAME_Y)}
Domains == {None, Some(DOMAIN_S_D), Some(DOMAIN_D)}

\* keys of rules.app and rules.domain taken together, in one config
MaxRules == 2

EgressSpecOf(kind) ==
    [kind |-> kind,
     endpoint |-> IF kind \in {"singbox", "socks5"} THEN Some(EP_SOCKS_H_1) ELSE None]

RuleKeys == EgressIds \X {"app", "domain"}

\* rules.app and rules.domain with the keys K, their pattern lists picked by f
RulesOf(K, f) ==
    [app |-> [id \in {i \in EgressIds : <<i, "app">> \in K} |-> AppLists[f[<<id, "app">>]]],
     domain |-> [id \in {i \in EgressIds : <<i, "domain">> \in K} |->
                    DomainLists[f[<<id, "domain">>]]]]

Configs ==
    {[defaults |-> [egress |-> default],
      egress |-> [id \in EgressIds |-> EgressSpecOf(kinds[id])],
      rules |-> RulesOf(DOMAIN f, f)] :
        default \in EgressIds,
        kinds \in [EgressIds -> EgressKind],
        f \in UNION {[K -> 1..2] : K \in {K \in SUBSET RuleKeys : Cardinality(K) <= MaxRules}}}

\* the daemon as constructed from any of the configs, nothing accepted yet
DecideInit ==
    /\ cfg \in Configs
    /\ load_from_path(Toml(cfg)).ok
    /\ file = Toml(cfg)
    /\ latest = cfg
    /\ running = TRUE
    /\ ipc_requests = 0
    /\ reload_ok = 0
    /\ reload_err = 0
    /\ main_pc = "loop"
    /\ conns = [c \in Slots |-> Idle]
    /\ accepted = 0
    /\ received = 0
    /\ call = NoCall

\* one call of policy::engine::decide on the live config; decide is a pure
\* function of its arguments, so one call per behaviour shows all it does
Decide(process_name, domain) ==
    /\ ~call.called
    /\ call' = [called |-> TRUE, process_name |-> process_name, domain |-> domain,
                decision |-> decide(cfg, process_name, domain)]
    /\ UNCHANGED <<file, cfg, running, ipc_requests, reload_ok, reload_err,
                   main_pc, conns, accepted, received, latest>>

DecideNext == \E process_name \in ProcessNames, domain \in Domains : Decide(process_name, domain)

DecideSpec == DecideInit /\ [][DecideNext]_vars

\* one Explain request answered on the live config: handle_explain wraps what
\* explain returns in Response::OkExplain
Explain(process, domain) ==
    /\ ~call.called
    /\ call' = [called |-> TRUE, process_name |-> process, domain |-> domain,
                response |-> [type |-> "ok_explain"] @@ explain(process, domain)]
    /\ UNCHANGED <<file, cfg, running, ipc_requests, reload_ok, reload_err,
                   main_pc, conns, accepted, received, latest>>

ExplainNext == \E process \in ProcessNames, domain \in Domains : Explain(process, domain)

ExplainSpec == DecideInit /\ [][ExplainNext]_vars

(***************************************************************************)
(* Policy documents of every sort: one egress "v" whose kind and endpoint  *)
(* vary, next to a block egress "b" and a direct egress "n"; defaults and  *)
(* rule keys that name declared and undeclared ("z") egresses; pattern     *)
(* lists with blank entries                                                *)
(***************************************************************************)
PAT_EMPTY == <<>>                                   \* ""

\* socks5://<rest>
Socks5Endpoint(rest) == STR_SOCKS5 \o STR_SCHEME_SEP \o rest

CandidateEndpointStrings ==
    {EP_SOCKS_H_1, EP_SOCKS_V6_80, EP_HTTP_H_1,
     <<>>,                                                      \* ""
     <<32, 9>>,                                                 \* " \t"
     <<32>> \o EP_SOCKS_H_1 \o <<32>>,                          \* " socks5://h:1 "
     <<104, 58, 49>>,                                           \* "h:1"
     STR_SCHEME_SEP \o <<104, 58, 49>>,                         \* "://h:1"
     <<83, 79, 67, 75, 83, 53>> \o STR_SCHEME_SEP \o <<104, 58, 49>>,  \* "SOCKS5://h:1"
     Socks5Endpoint(<<58, 49>>),                                \* "socks5://:1"
     Socks5Endpoint(<<32, 58, 49>>),                            \* "socks5:// :1"
     Socks5Endpoint(<<104>>),                                   \* "socks5://h"
     Socks5Endpoint(<<104, 58>>),                               \* "socks5://h:"
     Socks5Endpoint(<<104, 58, 48>>),                           \* "socks5://h:0"
     Socks5Endpoint(<<104, 58, 48, 56, 48>>),                   \* "socks5://h:080"
     Socks5Endpoint(<<104, 58, 54, 53, 53, 51, 53>>),           \* "socks5://h:65535"
     Socks5Endpoint(<<104, 58, 54, 53, 53, 51, 54>>),           \* "socks5://h:65536"
     Socks5Endpoint(<<104, 58, 43, 56, 48>>),                   \* "socks5://h:+80"
     Socks5Endpoint(<<104, 58, 45, 49>>),                       \* "socks5://h:-1"
     Socks5Endpoint(<<104, 58, 120>>),                          \* "socks5://h:x"
     Socks5Endpoint(<<104, 58, 49, 47>>),                       \* "socks5://h:1/"
     Socks5Endpoint(<<91, 58, 58, 49, 93, 56, 48>>),            \* "socks5://[::1]80"
     Socks5Endpoint(<<91, 58, 58, 49, 58, 56, 48>>),            \* "socks5://[::1:80"
     Socks5Endpoint(<<91, 93, 58, 49>>),                        \* "socks5://[]:1"
     Socks5Endpoint(<<91, 32, 93, 58, 49>>),                    \* "socks5://[ ]:1"
     Socks5Endpoint(<<97, 58, 98, 58, 49>>),                    \* "socks5://a:b:1"
     Socks5Endpoint(<<104, 32, 58, 49>>),                       \* "socks5://h :1"
     STR_SOCKS5 \o <<32>> \o STR_SCHEME_SEP \o <<104, 58, 49>>} \* "socks5 ://h:1"

CandidateEndpoints == {None} \cup {Some(e) : e \in CandidateEndpointStrings}

\* the empty BTreeMap
EmptyRules == [id \in {} |-> <<>>]

CandidateAppRules ==
    {EmptyRules,
     (ID_B :> <<PAT_X>>),
     (ID_N :> <<PAT_X>>) @@ (ID_V :> <<PAT_UPPER_Y>>),
     (ID_Z :> <<PAT_X>>),
     (ID_Z :> <<>>),
     (ID_B :> <<PAT_X, PAT_BLANK>>) @@ (ID_N :> <<PAT_EMPTY>>),
     (ID_N :> <<PAT_BLANK, PAT_EMPTY>>)}

CandidateDomainRules ==
    {EmptyRules,
     (ID_V :> <<PAT_D>>) @@ (ID_B :> <<PAT_DOT_S_D_DOT>>),
     (ID_Z :> <<>>),
     (ID_N :> <<PAT_D, PAT_D, PAT_BLANK>>),
     (ID_Z :> <<PAT_EMPTY>>)}

CandidateConfigs ==
    {[defaults |-> [egress |-> default],
      egress |-> (ID_V :> [kind |-> kind, endpoint |-> endpoint]) @@
                 (ID_B :> [kind |-> "block", endpoint |-> None]) @@
                 (ID_N :> [kind |-> "direct", endpoint |-> None]),
      rules |-> [app |-> app, domain |-> domain]] :
        default \in {ID_N, ID_Z},
        kind \in EgressKind,
        endpoint \in CandidateEndpoints,
        app \in CandidateAppRules,
        domain \in CandidateDomainRules}

CandidateDocs ==
    {[kind |-> "unreadable"], [kind |-> "malformed"]} \cup {Toml(c) : c \in CandidateConfigs}

(***************************************************************************)
(* The daemon's startup: main() loads the policy document, builds State    *)
(* from the config it got, or returns the error; decide() then runs on     *)
(* the config of State.                                                    *)
(***************************************************************************)
\* before main() has loaded the document
StartInit ==
    /\ file \in CandidateDocs
    /\ cfg = None
    /\ latest = None
    /\ running = TRUE
    /\ ipc_requests = 0
    /\ reload_ok = 0
    /\ reload_err = 0
    /\ main_pc = "start"
    /\ conns = [c \in Slots |-> Idle]
    /\ accepted = 0
    /\ received = 0
    /\ call = NoCall

\* main(): AppConfig::load_from_path(&cli.config)? and State construction
StartLoad ==
    /\ main_pc = "start"
    /\ \E loaded \in {load_from_path(file)} :
          IF loaded.ok
          THEN /\ cfg' = loaded.val
               /\ latest' = loaded.val
               /\ main_pc' = "loop"
          ELSE /\ main_pc' = "exited"
               /\ UNCHANGED <<cfg, latest>>
    /\ UNCHANGED <<file, running, ipc_requests, reload_ok, reload_err, conns,
                   accepted, received, call>>

\* decide() on the config of State
StartDecide(process_name, domain) ==
    /\ main_pc = "loop"
    /\ Decide(process_name, domain)

StartNext ==
    \/ StartLoad
    \/ \E process_name \in ProcessNames, domain \in Domains : StartDecide(process_name, domain)

StartSpec == StartInit /\ [][StartNext]_vars

(***************************************************************************)
(* validate() applied to each parsed candidate document                    *)
(***************************************************************************)
ValidateInit ==
    /\ file \in {Toml(c) : c \in CandidateConfigs}
    /\ cfg = None
    /\ latest = None
    /\ running = TRUE
    /\ ipc_requests = 0
    /\ reload_ok = 0
    /\ reload_err = 0
    /\ main_pc = "start"
    /\ conns = [c \in Slots |-> Idle]
    /\ accepted = 0
    /\ received = 0
    /\ call = NoCall

\* cfg.validate()
Validate ==
    /\ ~call.called
    /\ call' = [called |-> TRUE, result |-> validate(file.cfg)]
    /\ UNCHANGED <<file, cfg, latest, running, ipc_requests, reload_ok, reload_err,
                   main_pc, conns, accepted, received>>

ValidateNext == Validate

ValidateSpec == ValidateInit /\ [][ValidateNext]_vars

(***************************************************************************)
(* The one-shot command of main.rs: load_config, decide, look the chosen   *)
(* egress up in the catalogue, report                                      *)
(***************************************************************************)
\* read_to_string, then toml::from_str
load_config(doc) ==
    IF doc.kind = "unreadable" THEN Err([what |-> "read_failed"])
    ELSE IF doc.kind = "malformed" THEN Err([what |-> "parse_failed"])
    ELSE Ok(doc.cfg)

CliInit ==
    /\ file \in CandidateDocs
    /\ cfg = None
    /\ latest = None
    /\ running = TRUE
    /\ ipc_requests = 0
    /\ reload_ok = 0
    /\ reload_err = 0
    /\ main_pc = "cli_start"
    /\ conns = [c \in Slots |-> Idle]
    /\ accepted = 0
    /\ received = 0
    /\ call = NoCall

\* let cfg = load_config(&config_path)?;
CliLoadConfig ==
    /\ main_pc = "cli_start"
    /\ \E loaded \in {load_config(file)} :
          IF loaded.ok
          THEN /\ cfg' = loaded.val
               /\ main_pc' = "cli_loaded"
          ELSE /\ main_pc' = "exited"
               /\ UNCHANGED cfg
    /\ UNCHANGED <<file, latest, running, ipc_requests, reload_ok, reload_err,
                   conns, accepted, received, call>>

\* the decision, then the catalogue entry of its egress or an error
CliDecide(process_name, domain) ==
    /\ main_pc = "cli_loaded"
    /\ \E decision \in {decide(cfg, process_name, domain)} :
          /\ call' = [called |-> TRUE, process_name |-> process_name,
                      domain |-> domain, decision |-> decision]
          /\ main_pc' = IF decision.egress \in DOMAIN cfg.egress
                        THEN "cli_reported" ELSE "exited"
    /\ UNCHANGED <<file, cfg, latest, running, ipc_requests, reload_ok, reload_err,
                   conns, accepted, received>>

CliNext ==
    \/ CliLoadConfig
    \/ \E process_name \in ProcessNames, domain \in Domains :
          CliDecide(process_name, domain)

CliSpec == CliInit /\ [][CliNext]_vars

(***************************************************************************)
(* decide() with one rule in the config: a domain against one domain       *)
(* pattern, a process name against one app pattern, each written in the    *)
(* ways its normal form can be written                                     *)
(***************************************************************************)
\* domains "d", "s.d", "xs.d", "a.s.d"; the patterns are "d" and "s.d"
DomainBases == {<<100>>, <<115, 46, 100>>, <<120, 115, 46, 100>>, <<97, 46, 115, 46, 100>>}
DomainPatternBases == {<<100>>, <<115, 46, 100>>}

upper_case(s) ==
    [i \in 1..Len(s) |-> IF s[i] \in 97..122 THEN s[i] - 32 ELSE s[i]]

\* the base in either case, trailing dots after it, whitespace around it
DomainVariantsOf(base) ==
    {pad[1] \o core \o dots \o pad[2] :
        core \in {base, upper_case(base)},
        dots \in {<<>>, <<46>>, <<46, 46>>},
        pad \in {<< <<>>, <<>> >>, << <<32>>, <<9, 32>> >>}}

\* the same, with or without one leading '.'
DomainPatternVariantsOf(base) ==
    {pad[1] \o dot \o core \o dots \o pad[2] :
        dot \in {<<>>, <<46>>},
        core \in {base, upper_case(base)},
        dots \in {<<>>, <<46>>, <<46, 46>>},
        pad \in {<< <<>>, <<>> >>, << <<32>>, <<9, 32>> >>}}

\* "", "." and " ..<tab>": the domains whose normal form is empty
MatchEmptyDomains == {<<>>, <<46>>, <<32, 46, 46, 9>>}

MatchDomains == UNION {DomainVariantsOf(base) : base \in DomainBases} \cup MatchEmptyDomains
MatchDomainPatterns == UNION {DomainPatternVariantsOf(base) : base \in DomainPatternBases}

\* egress "v" (singbox) carries the one rule, "n" (direct) is the default
MatchConfig(app, domain) ==
    [defaults |-> [egress |-> ID_N],
     egress |-> (ID_V :> [kind |-> "singbox", endpoint |-> Some(EP_SOCKS_H_1)]) @@
                (ID_N :> [kind |-> "direct", endpoint |-> None]),
     rules |-> [app |-> app, domain |-> domain]]

MatchDomainConfig(pattern) == MatchConfig(EmptyRules, (ID_V :> <<pattern>>))

\* "y", "Y", " y ", "xy", "yx", "/a/y", "C:\Dir\Y", "/a/y/", "y/x", "a/ y",
\* "y /", "/", "\\" and ""
MatchNames ==
    {<<121>>, <<89>>, <<32, 121, 9>>, <<120, 121>>, <<121, 120>>,
     <<47, 97, 47, 121>>, <<67, 58, 92, 68, 105, 114, 92, 89>>,
     <<47, 97, 47, 121, 47>>, <<121, 47, 120>>, <<97, 47, 32, 121>>,
     <<121, 32, 47>>, <<47>>, <<92, 92>>, <<>>}

\* a pattern is never empty after trimming
MatchAppPatterns == MatchNames \ {<<>>}

MatchAppConfig(pattern) == MatchConfig((ID_V :> <<pattern>>), EmptyRules)

MatchConfigs ==
    {MatchDomainConfig(pattern) : pattern \in MatchDomainPatterns} \cup
    {MatchAppConfig(pattern) : pattern \in MatchAppPatterns}

MatchInit ==
    /\ cfg \in MatchConfigs
    /\ load_from_path(Toml(cfg)).ok
    /\ file = Toml(cfg)
    /\ latest = cfg
    /\ running = TRUE
    /\ ipc_requests = 0
    /\ reload_ok = 0
    /\ reload_err = 0
    /\ main_pc = "loop"
    /\ conns = [c \in Slots |-> Idle]
    /\ accepted = 0
    /\ received = 0
    /\ call = NoCall

\* decide(cfg, None, Some(domain))
MatchDomain(domain) ==
    /\ DOMAIN cfg.rules.domain # {}
    /\ Decide(None, Some(domain))

\* decide(cfg, Some(process_name), None)
MatchApp(process_name) ==
    /\ DOMAIN cfg.rules.app # {}
    /\ Decide(Some(process_name), None)

MatchNext ==
    \/ \E domain \in MatchDomains : MatchDomain(domain)
    \/ \E process_name \in MatchNames : MatchApp(process_name)

MatchSpec == MatchInit /\ [][MatchNext]_vars

(***************************************************************************)
(* The invariants of Config, as the data model states them                 *)
(***************************************************************************)
DecimalValue(p) ==
    LET value[i \in 0..Len(p)] ==
            IF i = 0 THEN 0 ELSE 10 * value[i - 1] + (p[i] - 48)
    IN value[Len(p)]

\* a port in 1..=65535, in decimal digits
SpecPortOk(p) ==
    /\ p # <<>>
    /\ \A i \in 1..Len(p) : p[i] \in 48..57
    /\ Len(p) <= 5 \/ \A i \in 1..(Len(p) - 5) : p[i] = 48
    /\ DecimalValue(p) \in 1..65535

\* socks5://host:port or socks5://[ipv6]:port, host non-empty
SpecEndpointOk(e) ==
    LET t == trim(e)
        prefix == STR_SOCKS5 \o STR_SCHEME_SEP
        rest == SubSeq(t, Len(prefix) + 1, Len(t))
    IN /\ t # <<>>
       /\ starts_with(t, prefix)
       /\ \/ \E k \in 2..Len(rest) :
                /\ rest[1] # 91
                /\ rest[k] = 58
                /\ SpecPortOk(SubSeq(rest, k + 1, Len(rest)))
          \/ \E k \in 3..(Len(rest) - 1) :
                /\ rest[1] = 91
                /\ rest[k] = 93
                /\ rest[k + 1] = 58
                /\ SpecPortOk(SubSeq(rest, k + 2, Len(rest)))

SpecValid(c) ==
    /\ c.defaults.egress \in DOMAIN c.egress
    /\ DOMAIN c.rules.app \subseteq DOMAIN c.egress
    /\ DOMAIN c.rules.domain \subseteq DOMAIN c.egress
    /\ \A id \in DOMAIN c.egress :
          IF c.egress[id].kind \in {"singbox", "socks5"}
          THEN c.egress[id].endpoint.some /\ SpecEndpointOk(c.egress[id].endpoint.val)
          ELSE ~c.egress[id].endpoint.some
    /\ \A id \in DOMAIN c.rules.app :
          \A i \in 1..Len(c.rules.app[id]) : trim(c.rules.app[id][i]) # <<>>
    /\ \A id \in DOMAIN c.rules.domain :
          \A i \in 1..Len(c.rules.domain[id]) : trim(c.rules.domain[id][i]) # <<>>

\* a candidate document that can be read, parsed and validated
DocAcceptable(doc) == doc.kind = "toml" /\ SpecValid(doc.cfg)

\* thread c takes a step of its own
Steps(c) == conns[c] # Idle /\ (conns'[c] = Idle \/ conns'[c].pc # conns[c].pc)

(***************************************************************************)
(* C1: a reload whose candidate document cannot be read, parsed or         *)
(* validated returns an error, leaves the live config as it was, adds      *)
(* exactly 1 to reload_err and leaves reload_ok unchanged.                 *)
(***************************************************************************)
C1_FailedReloadIsNoOp ==
    [][\A c \in Slots :
         /\ (conns[c].pc = "dispatch" /\ conns[c].req.val.type = "reload" /\ Steps(c))
               => /\ cfg' = cfg
                  /\ reload_ok' = reload_ok
                  /\ reload_err' = reload_err
                  /\ conns'[c].pc = "reload_loaded"
                  /\ conns'[c].raw = Some(file)
         /\ (conns[c].pc = "reload_loaded" /\ ~DocAcceptable(conns[c].raw.val) /\ Steps(c))
               => /\ cfg' = cfg
                  /\ reload_err' = reload_err + 1
                  /\ reload_ok' = reload_ok
                  /\ conns'[c].pc = "write"
                  /\ conns'[c].resp.val.type = "err"]_vars

C1_Witness ==
    \E c \in Slots :
        /\ conns[c].pc = "write"
        /\ conns[c].req.val.type = "reload"
        /\ ~DocAcceptable(conns[c].raw.val)
        /\ conns[c].raw.val.kind = "toml"
        /\ conns[c].resp.val.type = "err"
        /\ conns[c].live = {cfg}
        /\ reload_err = 1
        /\ reload_ok = 0

(***************************************************************************)
(* C2: a reload whose candidate parses and validates to c2 makes c2 the    *)
(* live config, returns Ok, adds exactly 1 to reload_ok and leaves         *)
(* reload_err unchanged.                                                   *)
(***************************************************************************)
C2_SuccessfulReloadReplaces ==
    [][\A c \in Slots :
         /\ (conns[c].pc = "reload_loaded" /\ DocAcceptable(conns[c].raw.val) /\ Steps(c))
               => /\ cfg' = conns[c].raw.val.cfg
                  /\ cfg_load' = conns[c].raw.val.cfg
                  /\ reload_ok' = reload_ok
                  /\ reload_err' = reload_err
                  /\ conns'[c].pc = "reload_stored"
         /\ (conns[c].pc = "reload_stored" /\ Steps(c))
               => /\ cfg' = cfg
                  /\ reload_ok' = reload_ok + 1
                  /\ reload_err' = reload_err
                  /\ conns'[c].pc = "write"
                  /\ conns'[c].resp.val.type = "ok_reload"]_vars

C2_Witness ==
    \E c \in Slots :
        /\ conns[c].pc = "write"
        /\ conns[c].resp.val.type = "ok_reload"
        /\ cfg = conns[c].raw.val.cfg
        /\ Cardinality(conns[c].live) = 2
        /\ reload_ok = 1
        /\ reload_err = 0

(***************************************************************************)
(* C3: in every reachable daemon state the live config satisfies the       *)
(* validation invariants: defaults.egress and every key of rules.app and   *)
(* rules.domain is a key of the catalogue, the per-kind endpoint           *)
(* constraints hold, and every pattern is non-empty after trimming.        *)
(***************************************************************************)
C3_LiveConfigValid == SpecValid(cfg)

C3_Witness ==
    /\ reload_ok >= 1
    /\ reload_err >= 1
    /\ \E c \in Slots :
          /\ conns[c].pc = "write"
          /\ conns[c].resp.val.type = "err"
          /\ conns[c].raw.val = Toml(CfgBadScheme)

(***************************************************************************)
(* What a response says about the config it was computed from              *)
(***************************************************************************)
AnsweredFrom(resp, req, X) ==
    CASE resp.type = "ok_status" ->
            /\ Len(resp.egress) = Cardinality(DOMAIN X.egress)
            /\ {resp.egress[i] : i \in 1..Len(resp.egress)} =
                  {[id |-> id, kind |-> X.egress[id].kind,
                    endpoint |-> X.egress[id].endpoint] : id \in DOMAIN X.egress}
      [] resp.type = "ok_explain" ->
            LET d == decide(X, req.process, req.domain)
            IN /\ resp.decision.egress = d.egress
               /\ resp.decision.source = map_source(d.reason)
               /\ resp.decision.matcher = map_matcher(d.reason)
      [] resp.type = "ok_diagnostics" ->
            resp.egress_count = Cardinality(DOMAIN X.egress)
      [] OTHER -> TRUE

(***************************************************************************)
(* C4: every Status, Diagnostics or Explain response is computed as a      *)
(* whole from one config that State.cfg held during the request, never     *)
(* from a mixture of two configs or a partially constructed one.           *)
(***************************************************************************)
C4_ResponseFromOneConfig ==
    \A c \in Slots :
        /\ conns[c].pc = "write"
              => \E X \in conns[c].live :
                    AnsweredFrom(conns[c].resp.val, conns[c].req.val, X)
        /\ conns[c].pc \in {"diag_running", "diag_requests", "diag_reload_ok",
                            "diag_reload_err"}
              => \E X \in conns[c].live : conns[c].diag[1] = Cardinality(DOMAIN X.egress)

C4_Witness ==
    \E c \in Slots :
        /\ conns[c].pc = "write"
        /\ conns[c].resp.val.type = "ok_explain"
        /\ Cardinality(conns[c].live) = 2
        /\ ~AnsweredFrom(conns[c].resp.val, conns[c].req.val, cfg)

NormalDomain(x) == to_ascii_lowercase(trim_end_matches(trim(x), 46))

AppPatternMatches(pattern, name) ==
    normalize_process_name(pattern) = normalize_process_name(name)

DomainPatternMatches(pattern, domain) ==
    LET suffix_raw == NormalDomain(pattern)
        suffix == IF suffix_raw # <<>> /\ suffix_raw[1] = 46 THEN Tail(suffix_raw) ELSE suffix_raw
        d == NormalDomain(domain)
    IN /\ suffix_raw # <<>>
       /\ \/ d = suffix
          \/ /\ Len(d) > Len(suffix)
             /\ SubSeq(d, Len(d) - Len(suffix), Len(d)) = <<46>> \o suffix

\* the egresses of kind in Kinds with an app (a domain) pattern that matches
AppHits(c, Kinds, name) ==
    {id \in DOMAIN c.rules.app :
        /\ c.egress[id].kind \in Kinds
        /\ name.some
        /\ \E i \in 1..Len(c.rules.app[id]) : AppPatternMatches(c.rules.app[id][i], name.val)}

DomainHits(c, Kinds, domain) ==
    {id \in DOMAIN c.rules.domain :
        /\ c.egress[id].kind \in Kinds
        /\ domain.some
        /\ \E i \in 1..Len(c.rules.domain[id]) :
              DomainPatternMatches(c.rules.domain[id][i], domain.val)}

BlockKind == {"block"}
NonBlockKinds == {"singbox", "socks5", "direct"}

\* the byte order of two ids
LexLess(a, b) ==
    \E n \in 0..Len(b) - 1 :
        /\ n <= Len(a)
        /\ \A i \in 1..n : a[i] = b[i]
        /\ n = Len(a) \/ a[n + 1] < b[n + 1]

LeastId(S) == CHOOSE x \in S : \A y \in S \ {x} : LexLess(x, y)

PriorityRank(kind) == IF kind = "singbox" THEN 0 ELSE IF kind = "socks5" THEN 1 ELSE 2

\* the egress of S that is minimal under (kind rank, id)
Preferred(c, S) ==
    CHOOSE x \in S : \A y \in S \ {x} :
        \/ PriorityRank(c.egress[x].kind) < PriorityRank(c.egress[y].kind)
        \/ /\ PriorityRank(c.egress[x].kind) = PriorityRank(c.egress[y].kind)
           /\ LexLess(x, y)

NoBlockHit ==
    /\ AppHits(cfg, BlockKind, call.process_name) = {}
    /\ DomainHits(cfg, BlockKind, call.domain) = {}

(***************************************************************************)
(* C6: when the process name matches an app pattern filed under a          *)
(* block-kind egress, decide returns a block-kind egress with that match   *)
(* and the reason BlockByApp, whatever the domain is and whatever domain   *)
(* or app rules of non-block egresses match as well.                       *)
(***************************************************************************)
C6_BlockByAppPrecedence ==
    (call.called /\ AppHits(cfg, BlockKind, call.process_name) # {})
        => /\ call.decision.reason.tag = "BlockByApp"
           /\ call.decision.egress \in AppHits(cfg, BlockKind, call.process_name)
           /\ call.decision.reason.egress = call.decision.egress

\* a block app match together with a matching domain rule of a non-block egress
C6_Witness ==
    /\ call.called
    /\ AppHits(cfg, BlockKind, call.process_name) # {}
    /\ DomainHits(cfg, NonBlockKinds, call.domain) # {}
    /\ call.decision.reason.tag = "BlockByApp"

(***************************************************************************)
(* C7: when no block app pattern matches the process name and the domain   *)
(* matches a domain pattern filed under a block-kind egress, decide        *)
(* returns that block egress (the least id of those that match) with the   *)
(* reason BlockByDomain, whatever rules of non-block egresses match.       *)
(***************************************************************************)
C7_BlockByDomainPrecedence ==
    (/\ call.called
     /\ AppHits(cfg, BlockKind, call.process_name) = {}
     /\ DomainHits(cfg, BlockKind, call.domain) # {})
        => /\ call.decision.reason.tag = "BlockByDomain"
           /\ call.decision.egress = LeastId(DomainHits(cfg, BlockKind, call.domain))
           /\ call.decision.reason.egress = call.decision.egress

\* a block domain match together with a matching rule of a non-block egress
C7_Witness ==
    /\ call.called
    /\ call.process_name.some
    /\ AppHits(cfg, BlockKind, call.process_name) = {}
    /\ DomainHits(cfg, BlockKind, call.domain) # {}
    /\ \/ DomainHits(cfg, NonBlockKinds, call.domain) # {}
       \/ AppHits(cfg, NonBlockKinds, call.process_name) # {}
    /\ call.decision.reason.tag = "BlockByDomain"

(***************************************************************************)
(* C8: when no block rule matches, the domain matches a domain rule of a   *)
(* non-block egress and the process name matches an app rule of a          *)
(* non-block egress, decide returns a DomainRule decision for one of the   *)
(* domain-matching egresses, whatever the kinds and ids of the two are.    *)
(***************************************************************************)
C8_DomainBeatsApp ==
    (/\ call.called
     /\ NoBlockHit
     /\ DomainHits(cfg, NonBlockKinds, call.domain) # {}
     /\ AppHits(cfg, NonBlockKinds, call.process_name) # {})
        => /\ call.decision.reason.tag = "DomainRule"
           /\ call.decision.egress \in DomainHits(cfg, NonBlockKinds, call.domain)
           /\ call.decision.reason.egress = call.decision.egress

\* the app rule's egress ranks before the domain rule's and has the smaller id
C8_Witness ==
    /\ call.called
    /\ NoBlockHit
    /\ call.decision.reason.tag = "DomainRule"
    /\ \E a \in AppHits(cfg, NonBlockKinds, call.process_name) :
          /\ a # call.decision.egress
          /\ PriorityRank(cfg.egress[a].kind) < PriorityRank(cfg.egress[call.decision.egress].kind)
          /\ LexLess(a, call.decision.egress)

(***************************************************************************)
(* C9: in the domain-rule step and in the app-rule step, decide picks,     *)
(* among the non-block egresses whose pattern list matches the input, the  *)
(* one that is minimal under (kind rank, EgressId), with singbox = 0 <     *)
(* socks5 = 1 < direct = 2 and equal ranks ordered by the smaller id.      *)
(***************************************************************************)
C9_PriorityAmongNonBlock ==
    call.called =>
        /\ call.decision.reason.tag = "DomainRule" =>
              /\ DomainHits(cfg, NonBlockKinds, call.domain) # {}
              /\ call.decision.egress = Preferred(cfg, DomainHits(cfg, NonBlockKinds, call.domain))
        /\ call.decision.reason.tag = "AppRule" =>
              /\ AppHits(cfg, NonBlockKinds, call.process_name) # {}
              /\ call.decision.egress = Preferred(cfg, AppHits(cfg, NonBlockKinds, call.process_name))

\* two app rules match, and the egress of the lower rank has the greater id
C9_Witness ==
    /\ call.called
    /\ call.decision.reason.tag = "AppRule"
    /\ \E other \in AppHits(cfg, NonBlockKinds, call.process_name) :
          /\ LexLess(other, call.decision.egress)
          /\ PriorityRank(cfg.egress[call.decision.egress].kind) < PriorityRank(cfg.egress[other].kind)

(***************************************************************************)
(* C10: when no block rule, no domain rule of a non-block egress and no    *)
(* app rule of a non-block egress matches the input (both inputs absent    *)
(* included), decide returns defaults.egress with the reason               *)
(* Default{egress = defaults.egress}.                                      *)
(***************************************************************************)
C10_DefaultFallback ==
    (/\ call.called
     /\ NoBlockHit
     /\ DomainHits(cfg, NonBlockKinds, call.domain) = {}
     /\ AppHits(cfg, NonBlockKinds, call.process_name) = {})
        => call.decision = [egress |-> cfg.defaults.egress,
                            reason |-> [tag |-> "Default", egress |-> cfg.defaults.egress]]

\* both inputs present, rules of both tables present and none of them matches;
\* the default is not the first egress of the catalogue
C10_Witness ==
    /\ call.called
    /\ call.process_name.some
    /\ call.domain.some
    /\ DOMAIN cfg.rules.app # {}
    /\ DOMAIN cfg.rules.domain # {}
    /\ call.decision.reason.tag = "Default"
    /\ call.decision.egress = ID_AB

(***************************************************************************)
(* C11: decide is total on validated configs: on every config that         *)
(* validate() accepted and for every input (process name and domain each   *)
(* present or absent) decide returns a Decision, and the egress of that    *)
(* Decision is a key of the config's egress catalogue.                     *)
(***************************************************************************)
C11_DecideTotal ==
    call.called =>
        /\ DOMAIN call.decision = {"egress", "reason"}
        /\ call.decision.egress \in DOMAIN cfg.egress
        /\ call.decision.reason.tag \in
              {"BlockByApp", "BlockByDomain", "AppRule", "DomainRule", "Default"}

\* the default fallback on a document that main() loaded, no rule matching
C11_Witness ==
    /\ call.called
    /\ file \in CandidateDocs
    /\ call.decision.reason.tag = "Default"
    /\ DOMAIN cfg.rules.app # {}

(***************************************************************************)
(* C12: the domain match relation.  For a normalized domain d and a        *)
(* normalized non-empty pattern p, the pattern matches with kind Exact     *)
(* iff d = p, with kind Suffix iff d differs from p and d ends with        *)
(* "." followed by p, and does not match otherwise: a domain that ends     *)
(* with the characters of p without a label boundary does not match.       *)
(***************************************************************************)
C12_DomainMatchRelation ==
    (/\ call.called
     /\ call.domain.some
     /\ DOMAIN cfg.rules.domain = {ID_V}
     /\ call.domain.val \in DomainBases
     /\ cfg.rules.domain[ID_V][1] \in DomainPatternBases)
        => LET d == call.domain.val
               p == cfg.rules.domain[ID_V][1]
               r == call.decision.reason
               at_label == /\ Len(d) > Len(p)
                           /\ d[Len(d) - Len(p)] = 46
                           /\ \A i \in 1..Len(p) : d[Len(d) - Len(p) + i] = p[i]
           IN /\ (r.tag = "DomainRule" /\ r.match_kind = "Exact") <=> d = p
              /\ (r.tag = "DomainRule" /\ r.match_kind = "Suffix") <=> (d # p /\ at_label)
              /\ r.tag = "Default" <=> (d # p /\ ~at_label)

\* "xs.d" against the pattern "s.d": the characters of the pattern end the
\* domain, and no label starts there
C12_Witness ==
    /\ call.called
    /\ call.domain = Some(<<120, 115, 46, 100>>)
    /\ DOMAIN cfg.rules.domain = {ID_V}
    /\ cfg.rules.domain[ID_V] = << <<115, 46, 100>> >>
    /\ call.decision.reason.tag = "Default"

(***************************************************************************)
(* C13: domain normalization invariance.  The egress and the match kind    *)
(* chosen by decide() are the same when the input domain is written in     *)
(* another letter case, with surrounding whitespace or with trailing       *)
(* dots, and when the domain pattern is written in another letter case,    *)
(* with surrounding whitespace, with trailing dots or with one leading     *)
(* '.': the decision is the one for the plain domain and the plain         *)
(* pattern.                                                                *)
(***************************************************************************)
Outcome(decision) ==
    <<decision.egress,
      decision.reason.tag,
      IF decision.reason.tag = "DomainRule" THEN decision.reason.match_kind ELSE "-">>

C13_DomainNormalizationInvariance ==
    (/\ call.called
     /\ call.domain.some
     /\ DOMAIN cfg.rules.domain = {ID_V})
        => \A base \in DomainBases, pattern \in DomainPatternBases :
              (/\ call.domain.val \in DomainVariantsOf(base)
               /\ cfg.rules.domain[ID_V][1] \in DomainPatternVariantsOf(pattern))
                 => Outcome(call.decision) =
                      Outcome(decide(MatchDomainConfig(pattern), None, Some(base)))

\* " A.S.D.. " against the pattern " .S.D. ": a suffix match, as for
\* "a.s.d" against "s.d"
C13_Witness ==
    /\ call.called
    /\ call.domain = Some(<<32, 65, 46, 83, 46, 68, 46, 46, 9, 32>>)
    /\ DOMAIN cfg.rules.domain = {ID_V}
    /\ cfg.rules.domain[ID_V] = << <<32, 46, 83, 46, 68, 46, 9, 32>> >>
    /\ Outcome(call.decision) = <<ID_V, "DomainRule", "Suffix">>

(***************************************************************************)
(* C14: the app match relation.  An app pattern p matches a process name   *)
(* n iff normalize(n) = normalize(p), where normalize trims whitespace,    *)
(* replaces every '\' with '/', takes the last non-empty '/'-separated     *)
(* segment and lowercases it.  The match is equality: a name that only     *)
(* ends with the pattern does not match.                                   *)
(***************************************************************************)
Trimmed(s) ==
    LET inked == {i \in 1..Len(s) : s[i] \notin (9..13) \cup {32}}
    IN IF inked = {} THEN <<>>
       ELSE SubSeq(s, CHOOSE i \in inked : \A j \in inked : i <= j,
                      CHOOSE i \in inked : \A j \in inked : j <= i)

\* the segments of s between separators, as pairs <<first, last>> of indexes
Segments(s) ==
    LET sep(i) == i = 0 \/ i = Len(s) + 1 \/ s[i] \in {47, 92}
    IN {seg \in (1..Len(s)) \X (1..Len(s)) :
          /\ seg[1] <= seg[2]
          /\ sep(seg[1] - 1)
          /\ sep(seg[2] + 1)
          /\ \A i \in seg[1]..seg[2] : ~sep(i)}

LastSegment(s) ==
    IF Segments(s) = {} THEN <<>>
    ELSE LET seg == CHOOSE x \in Segments(s) : \A y \in Segments(s) : y[2] <= x[2]
         IN SubSeq(s, seg[1], seg[2])

NormalName(raw) ==
    LET base == LastSegment(Trimmed(raw))
    IN [i \in 1..Len(base) |-> IF base[i] \in 65..90 THEN base[i] + 32 ELSE base[i]]

C14_AppMatchRelation ==
    (/\ call.called
     /\ call.process_name.some
     /\ DOMAIN cfg.rules.app = {ID_V})
        => LET n == call.process_name.val
               p == cfg.rules.app[ID_V][1]
               r == call.decision.reason
           IN IF NormalName(n) = NormalName(p)
              THEN /\ r.tag = "AppRule"
                   /\ r.pattern = p
                   /\ call.decision.egress = ID_V
              ELSE r.tag = "Default"

\* "C:\Dir\Y" matches the pattern " y "
C14_Witness ==
    /\ call.called
    /\ call.process_name = Some(<<67, 58, 92, 68, 105, 114, 92, 89>>)
    /\ DOMAIN cfg.rules.app = {ID_V}
    /\ cfg.rules.app[ID_V] = << <<32, 121, 9>> >>
    /\ call.decision.reason.tag = "AppRule"

(***************************************************************************)
(* C15: the block search order.  A decision made by the block-by-app step  *)
(* names the block egress with the smallest EgressId, in byte order,       *)
(* among the block egresses with an app pattern that matches; a decision   *)
(* made by the block-by-domain step names the smallest among the block     *)
(* egresses with a domain pattern that matches.  Neither step returns an   *)
(* egress whose kind is not block.                                         *)
(***************************************************************************)
C15_BlockSearchOrder ==
    call.called =>
        /\ call.decision.reason.tag = "BlockByApp" =>
              /\ AppHits(cfg, BlockKind, call.process_name) # {}
              /\ call.decision.egress = LeastId(AppHits(cfg, BlockKind, call.process_name))
              /\ cfg.egress[call.decision.egress].kind = "block"
        /\ call.decision.reason.tag = "BlockByDomain" =>
              /\ DomainHits(cfg, BlockKind, call.domain) # {}
              /\ call.decision.egress = LeastId(DomainHits(cfg, BlockKind, call.domain))
              /\ cfg.egress[call.decision.egress].kind = "block"

\* two block egresses match the process name, and a non-block egress
\* is declared
C15_Witness ==
    /\ call.called
    /\ call.decision.reason.tag = "BlockByApp"
    /\ Cardinality(AppHits(cfg, BlockKind, call.process_name)) >= 2
    /\ \E id \in DOMAIN cfg.egress : cfg.egress[id].kind # "block"

(***************************************************************************)
(* C16: validate after every parse, fail closed.  Every config an entry    *)
(* point adopts for making decisions (daemon startup, daemon Reload, the   *)
(* one-shot command's load_config) has been parsed and has then passed     *)
(* validate(); a document that fails parsing or validation is never        *)
(* adopted.  Stated for the one-shot command: the config it decides with   *)
(* passes validate().                                                      *)
(***************************************************************************)
C16_ValidateAfterEveryParse ==
    (cfg # None /\ main_pc \in {"cli_loaded", "cli_reported", "exited"})
        => validate(cfg).ok

\* the one-shot command reports a decision made with a config that
\* validate() rejects
C16_Witness ==
    /\ main_pc = "cli_reported"
    /\ call.called
    /\ ~validate(cfg).ok

(***************************************************************************)
(* C17: cross-reference validation.  validate() returns an error whenever  *)
(* defaults.egress is not a key of the egress catalogue, or a key of       *)
(* rules.app or rules.domain is not a key of the catalogue, also when the  *)
(* pattern list under that key is empty; the error names a dangling id.    *)
(***************************************************************************)
Dangling(c) ==
    ({c.defaults.egress} \cup DOMAIN c.rules.app \cup DOMAIN c.rules.domain)
        \ DOMAIN c.egress

C17_CrossReferenceValidation ==
    (call.called /\ file.kind = "toml" /\ Dangling(file.cfg) # {})
        => /\ ~call.result.ok
           /\ call.result.err.what \in {"unknown_default", "unknown_rule_egress"}
           /\ call.result.err.egress \in Dangling(file.cfg)

\* the only dangling reference is a rule key with an empty pattern list
C17_Witness ==
    /\ call.called
    /\ file.cfg.defaults.egress = ID_N
    /\ file.cfg.rules.app = (ID_Z :> <<>>)
    /\ file.cfg.rules.domain = EmptyRules
    /\ \A id \in DOMAIN file.cfg.egress : validate_egress(id, file.cfg.egress[id]).ok
    /\ ~call.result.ok

(***************************************************************************)
(* C18: endpoint validation.  validate() accepts an egress spec iff, for   *)
(* kind singbox or socks5, the endpoint is present, non-empty after        *)
(* trimming and of the form scheme://host:port or scheme://[ipv6]:port     *)
(* with scheme exactly "socks5", a non-empty host and a port in 1..65535,  *)
(* and, for kind direct or block, the endpoint is absent.  The host ends   *)
(* at the first ':' (at the first ']' in the bracket form) and is not      *)
(* blank; the port is a decimal numeral as u16 parsing reads it, digits    *)
(* after an optional '+'.                                                  *)
(***************************************************************************)
Blank(s) == \A i \in 1..Len(s) : s[i] \in (9..13) \cup {32}

PortInRange(p) ==
    LET digits == IF p # <<>> /\ p[1] = 43 THEN SubSeq(p, 2, Len(p)) ELSE p
    IN /\ digits # <<>>
       /\ \A i \in 1..Len(digits) : digits[i] \in 48..57
       /\ DecimalValue(digits) \in 1..65535

EndpointForm(e) ==
    LET t == Trimmed(e)
        prefix == <<115, 111, 99, 107, 115, 53, 58, 47, 47>>       \* "socks5://"
        rest == SubSeq(t, Len(prefix) + 1, Len(t))
    IN /\ Len(t) > Len(prefix)
       /\ SubSeq(t, 1, Len(prefix)) = prefix
       /\ \/ /\ rest[1] # 91
             /\ \E k \in 2..Len(rest) :
                   /\ rest[k] = 58
                   /\ \A j \in 1..(k - 1) : rest[j] # 58
                   /\ ~Blank(SubSeq(rest, 1, k - 1))
                   /\ PortInRange(SubSeq(rest, k + 1, Len(rest)))
          \/ /\ rest[1] = 91
             /\ \E k \in 3..(Len(rest) - 1) :
                   /\ rest[k] = 93
                   /\ \A j \in 2..(k - 1) : rest[j] # 93
                   /\ rest[k + 1] = 58
                   /\ ~Blank(SubSeq(rest, 2, k - 1))
                   /\ PortInRange(SubSeq(rest, k + 2, Len(rest)))

EgressSpecForm(spec) ==
    IF spec.kind \in {"singbox", "socks5"}
    THEN spec.endpoint.some /\ EndpointForm(spec.endpoint.val)
    ELSE ~spec.endpoint.some

\* with no dangling reference, validate() gets as far as the egress specs:
\* it rejects one of them, or goes on to the patterns
C18_EndpointValidation ==
    (call.called /\ file.kind = "toml" /\ Dangling(file.cfg) = {})
        => ((\A id \in DOMAIN file.cfg.egress : EgressSpecForm(file.cfg.egress[id]))
              <=> (call.result.ok \/ call.result.err.what = "empty_pattern"))

\* a socks5 egress with the endpoint " socks5://h:1 " is accepted
C18_Witness ==
    /\ call.called
    /\ Dangling(file.cfg) = {}
    /\ file.cfg.egress[ID_V] =
          [kind |-> "socks5", endpoint |-> Some(<<32>> \o EP_SOCKS_H_1 \o <<32>>)]
    /\ call.result.ok

(***************************************************************************)
(* C19: pattern validation.  validate() returns an error if any app or     *)
(* domain pattern of any egress is empty after trimming whitespace, and    *)
(* the error identifies the rule kind, the index of the entry (from 0)     *)
(* and the egress id: the error for an empty pattern names an entry that   *)
(* is empty, and it is the error returned when nothing else is wrong with  *)
(* the config.                                                             *)
(***************************************************************************)
\* the entries that are empty after trimming: <<rule kind, egress id, index>>
EmptyEntries(c) ==
    UNION {{<<"app", id, i - 1>> :
              i \in {j \in 1..Len(c.rules.app[id]) : Blank(c.rules.app[id][j])}} :
           id \in DOMAIN c.rules.app} \cup
    UNION {{<<"domain", id, i - 1>> :
              i \in {j \in 1..Len(c.rules.domain[id]) : Blank(c.rules.domain[id][j])}} :
           id \in DOMAIN c.rules.domain}

C19_PatternValidation ==
    (/\ call.called
     /\ file.kind = "toml"
     /\ EmptyEntries(file.cfg) # {})
        => /\ ~call.result.ok
           /\ call.result.err.what = "empty_pattern" =>
                 <<call.result.err.rule, call.result.err.egress,
                   call.result.err.index>> \in EmptyEntries(file.cfg)
           /\ (/\ Dangling(file.cfg) = {}
               /\ \A id \in DOMAIN file.cfg.egress : EgressSpecForm(file.cfg.egress[id]))
                 => call.result.err.what = "empty_pattern"

\* the third domain pattern of egress "n" is " ": the error names it
C19_Witness ==
    /\ call.called
    /\ file.cfg.rules.app = EmptyRules
    /\ file.cfg.rules.domain = (ID_N :> <<PAT_D, PAT_D, PAT_BLANK>>)
    /\ call.result = Err([what |-> "empty_pattern", rule |-> "domain",
                          index |-> 2, egress |-> ID_N])

C21_UndecodableRequestAnswered ==
    [][\A c \in Slots :
         (conns[c] # Idle /\ conns[c].pc = "undecodable" /\ conns'[c] = Idle)
            => conns[c].writes = 1]_vars

\* a connection whose request line did not decode, before handle_conn returns
C21_Witness ==
    \E c \in Slots :
        /\ conns[c] # Idle
        /\ conns[c].pc = "undecodable"
        /\ conns[c].writes = 0
        /\ ~conns[c].resp.some

(***************************************************************************)
(* C22: the daemon's lifecycle is Running -> Stopping -> Terminated only.  *)
(* The running flag starts true, is set to false only by a Stop request    *)
(* or by the interrupt handler, and is never set back to true; the accept  *)
(* loop exits only after the flag is false, and never comes back; accept   *)
(* errors and Reload, Status, Explain and Diagnostics requests leave the   *)
(* daemon Running.                                                         *)
(***************************************************************************)
\* the step is the interrupt handler's store
InterruptStep == conns' = conns /\ main_pc' = main_pc

\* the step is handle_request's arm for Request::Stop
StopStep ==
    \E c \in Slots :
        /\ conns[c] # Idle
        /\ conns[c].pc = "dispatch"
        /\ conns[c].req = Some([type |-> "stop"])
        /\ conns'[c].pc = "write"

C22_Lifecycle ==
    /\ running = TRUE
    /\ main_pc # "exited"
    /\ [][/\ running' # running => (running /\ ~running' /\ (InterruptStep \/ StopStep))
          /\ (main_pc # "exited" /\ main_pc' = "exited") => (~running /\ ~running')
          /\ main_pc = "exited" => main_pc' = "exited"]_vars

\* Terminated after a Stop request, with a Reload handled while Running
C22_Witness ==
    /\ main_pc = "exited"
    /\ ~running
    /\ reload_ok + reload_err >= 1
    /\ \E c \in Slots : conns[c] # Idle /\ conns[c].req = Some([type |-> "stop"])

(***************************************************************************)
(* C23: shutdown liveness.  Once a Stop request has been handled or an     *)
(* interrupt has fired (running is false), the accept loop, scheduled      *)
(* fairly, eventually observes the flag and the daemon terminates; the     *)
(* step that observes the flag false leaves the loop, and no connection    *)
(* is accepted after it.                                                   *)
(***************************************************************************)
C23_ShutdownLiveness ==
    /\ (~running) ~> (main_pc = "exited")
    /\ [][/\ (main_pc = "loop" /\ ~running /\ main_pc' # main_pc) => main_pc' = "exited"
          /\ main_pc = "exited" => (accepted' = accepted /\ conns' = conns)]_vars

\* terminated after a Stop request that a worker handled
C23_Witness ==
    /\ main_pc = "exited"
    /\ ~running
    /\ \E c \in Slots :
          /\ conns[c] # Idle
          /\ conns[c].req = Some([type |-> "stop"])
          /\ conns[c].pc = "write"

(***************************************************************************)
(* C24: non-forcible shutdown.  A Stop request or an interrupt never       *)
(* aborts a worker mid-request: every connection accepted before the       *)
(* accept loop exits has its request dispatched and its response written,  *)
(* also when main finishes while the worker is still running, and also     *)
(* the connection that carried the Stop request.  So when the process      *)
(* has ended, no worker is left with an unfinished connection.             *)
(***************************************************************************)
C24_WorkersRunToCompletion ==
    main_pc = "exited" => \A c \in Slots : conns[c] = Idle

\* main has returned; the worker of the Stop request holds its response
\* unwritten, and another worker has not dispatched its request yet
C24_Witness ==
    /\ main_pc = "exited"
    /\ \E c, d \in Slots :
          /\ conns[c] # Idle
          /\ conns[c].pc = "write"
          /\ conns[c].resp = Some([type |-> "ok_stop"])
          /\ conns[d] # Idle
          /\ conns[d].pc = "dispatch"

(***************************************************************************)
(* C25: error isolation.  A read, decode or write failure in one           *)
(* connection's worker, and an accept error in the accept loop, never      *)
(* sets the running flag to false, never ends the accept loop, never       *)
(* changes the live config, and changes nothing on any other connection    *)
(* nor the counters its response is made of; while running is true the     *)
(* loop goes on to accept.                                                 *)
(***************************************************************************)
\* worker c fails: it gets an undecodable line, or handle_conn returns the
\* error of read_json_line or of write_json_line
FailureStep(c) ==
    /\ conns[c] # Idle
    /\ \/ conns[c].pc \in {"read", "undecodable", "write"} /\ conns'[c] = Idle
       \/ conns[c].pc = "read" /\ conns'[c] # Idle /\ conns'[c].pc = "undecodable"

\* accept() returns an error
AcceptFailureStep == main_pc = "accept" /\ main_pc' # main_pc /\ accepted' = accepted

C25_ErrorIsolation ==
    [][/\ \A c \in Slots :
            FailureStep(c) =>
               /\ running' = running
               /\ main_pc' = main_pc
               /\ cfg' = cfg
               /\ <<ipc_requests, reload_ok, reload_err>>' =
                     <<ipc_requests, reload_ok, reload_err>>
               /\ \A d \in Slots \ {c} : conns'[d] = conns[d]
       /\ AcceptFailureStep =>
               /\ running' = running
               /\ main_pc' = "loop"
               /\ cfg' = cfg
               /\ <<ipc_requests, reload_ok, reload_err>>' =
                     <<ipc_requests, reload_ok, reload_err>>
               /\ conns' = conns
       /\ (main_pc = "loop" /\ running /\ main_pc' # main_pc) => main_pc' = "accept"]_vars

\* one of two connections failed before a request was read; the daemon is
\* Running and the other connection has its response made
C25_Witness ==
    /\ accepted = 2
    /\ received = 1
    /\ running
    /\ main_pc # "exited"
    /\ conns[1] # Idle
    /\ conns[1].pc = "write"
    /\ conns[2] = Idle

(***************************************************************************)
(* C26: the request counter.  ipc_requests never decreases and is          *)
(* incremented by exactly 1 for each request the daemon receives, before   *)
(* that request is dispatched; with concurrent workers no increment is     *)
(* lost: the counter is the number of requests received less those whose   *)
(* worker has not counted yet, so once all workers have finished it        *)
(* equals the number of requests received.                                 *)
(***************************************************************************)
NotCounted == {c \in Slots : conns[c] # Idle /\ conns[c].pc = "count"}

C26_RequestCounter ==
    [][/\ ipc_requests' \in {ipc_requests, ipc_requests + 1}
       /\ ipc_requests' + Cardinality(NotCounted') = received'
       /\ \A c \in Slots :
             (conns[c] # Idle /\ conns'[c] # Idle /\
              conns[c].pc # "dispatch" /\ conns'[c].pc = "dispatch")
                => (conns[c].pc = "count" /\ ipc_requests' = ipc_requests + 1)]_vars

\* two workers counted their requests one after the other while both were
\* past the read: both requests are in the counter
C26_Witness ==
    /\ received = 2
    /\ ipc_requests = 2
    /\ \A c \in Slots : conns[c] # Idle /\ conns[c].pc = "dispatch"

(***************************************************************************)
(* C27: read-only requests.  No step a worker takes for a Status, a        *)
(* Diagnostics or an Explain request changes cfg, running, reload_ok or    *)
(* reload_err; the only shared field such a request changes is             *)
(* ipc_requests, by 1, at the count.  A Stop request changes running and   *)
(* ipc_requests only.                                                      *)
(***************************************************************************)
ReadOnlyTypes == {"status", "diagnostics", "explain"}

Serving(c, types) ==
    /\ Steps(c)
    /\ conns[c].pc # "read"
    /\ conns[c].req.some
    /\ conns[c].req.val.type \in types

CountedOnce(c) ==
    \/ ipc_requests' = ipc_requests
    \/ conns[c].pc = "count" /\ ipc_requests' = ipc_requests + 1

C27_ReadOnlyRequests ==
    [][\A c \in Slots :
          /\ Serving(c, ReadOnlyTypes)
                => /\ cfg' = cfg
                   /\ running' = running
                   /\ reload_ok' = reload_ok
                   /\ reload_err' = reload_err
                   /\ CountedOnce(c)
          /\ Serving(c, {"stop"})
                => /\ cfg' = cfg
                   /\ reload_ok' = reload_ok
                   /\ reload_err' = reload_err
                   /\ CountedOnce(c)]_vars

\* a Diagnostics request was served after a failed reload and its response is
\* ready: the counters it read are not zero, and they are what they were
C27_Witness ==
    \E c \in Slots :
        /\ conns[c] # Idle
        /\ conns[c].pc = "write"
        /\ conns[c].resp.val.type = "ok_diagnostics"
        /\ conns[c].resp.val.reload_err = 1
        /\ conns[c].resp.val.ipc_requests = 2
        /\ reload_err = 1
        /\ ipc_requests = 2
        /\ running

(***************************************************************************)
(* C28: Explain decomposition.  The response to Explain{process?, domain?} *)
(* is ok_explain; its egress is the egress decide gives on the live        *)
(* config for the same inputs; its source is the variant that corresponds  *)
(* to the decision reason (BlockByApp -> block_app, BlockByDomain ->       *)
(* block_domain, AppRule -> app_rule, DomainRule -> domain_rule, Default   *)
(* -> default); its matcher is present iff the source is not default, and  *)
(* then carries the winning pattern and the match kind: exact for the app  *)
(* sources, and for the domain sources exact or suffix as the queried      *)
(* domain matches that pattern.                                            *)
(***************************************************************************)
SourceOfReason ==
    [BlockByApp |-> "block_app", BlockByDomain |-> "block_domain",
     AppRule |-> "app_rule", DomainRule |-> "domain_rule", Default |-> "default"]

KindOfMatch == [Exact |-> "exact", Suffix |-> "suffix"]

Decomposes(response, d, domain) ==
    LET info == response.decision
    IN /\ response.type = "ok_explain"
       /\ info.egress = d.egress
       /\ info.source = SourceOfReason[d.reason.tag]
       /\ info.matcher.some <=> info.source # "default"
       /\ info.source \in {"block_app", "app_rule"}
             => info.matcher.val = [type |-> "exact", pattern |-> d.reason.pattern]
       /\ info.source \in {"block_domain", "domain_rule"}
             => /\ info.matcher.val.pattern = d.reason.pattern
                /\ info.matcher.val.type = KindOfMatch[d.reason.match_kind]
                /\ domain_matches_any(<<d.reason.pattern>>, domain.val)
                      = Some([pattern |-> info.matcher.val.pattern,
                              match_kind |-> d.reason.match_kind])

C28_ExplainDecomposition ==
    call.called =>
        let_in(decide(cfg, call.process_name, call.domain),
               LAMBDA d : Decomposes(call.response, d, call.domain))

\* an Explain whose decision came from a non-block domain rule by a suffix
\* match, the process name being given as well
C28_Witness ==
    /\ call.called
    /\ call.process_name.some
    /\ call.domain.some
    /\ call.response.decision.source = "domain_rule"
    /\ call.response.decision.matcher = Some([type |-> "suffix", pattern |-> PAT_D])

(***************************************************************************)
(* C29: Explain rule_egress.  rule_egress is present exactly when a block, *)
(* app or domain rule produced the decision, and then it is that rule's    *)
(* egress id; for a Default decision, where no rule matched, rule_egress   *)
(* is absent from the response.                                            *)
(***************************************************************************)
RuleEgressOfWinner(info, d) ==
    /\ info.rule_egress.some <=> d.reason.tag # "Default"
    /\ info.rule_egress.some => info.rule_egress.val = d.reason.egress

C29_RuleEgressIfAny ==
    call.called =>
        let_in(decide(cfg, call.process_name, call.domain),
               LAMBDA d : RuleEgressOfWinner(call.response.decision, d))

\* an Explain with both inputs given that no rule matched: the decision is
\* Default and the response carries a rule_egress all the same
C29_Witness ==
    /\ call.called
    /\ call.process_name.some
    /\ call.domain.some
    /\ DOMAIN cfg.rules.app # {}
    /\ DOMAIN cfg.rules.domain # {}
    /\ call.response.decision.source = "default"
    /\ call.response.decision.rule_egress = Some(cfg.defaults.egress)

(***************************************************************************)
(* C30: a reload failure is reported, not thrown.  When the document a     *)
(* Reload request loaded cannot be read, parsed or validated, the worker   *)
(* goes on to write a response of type err (the connection is not dropped  *)
(* and the daemon keeps running as it was); the error reload returned and  *)
(* the message of the response both name the config path, and the message  *)
(* carries the error the load gave.                                        *)
(***************************************************************************)
ReloadFails(c) ==
    /\ conns[c].pc = "reload_loaded"
    /\ ~DocAcceptable(conns[c].raw.val)
    /\ Steps(c)

C30_ReloadFailureReported ==
    [][\A c \in Slots :
          ReloadFails(c)
            => /\ conns'[c] # Idle
               /\ conns'[c].pc = "write"
               /\ conns'[c].resp.some
               /\ conns'[c].resp.val.type = "err"
               /\ conns'[c].resp.val.message.path = config_path
               /\ conns'[c].resp.val.message.error.path = config_path
               /\ conns'[c].resp.val.message.error.source
                     = load_from_path(conns[c].raw.val).err
               /\ running' = running
               /\ main_pc' = main_pc
               /\ \A d \in Slots \ {c} : conns'[d] = conns[d]]_vars

\* a Reload found a well-formed document that validate() rejects, and the err
\* response naming the config path is ready to be written
C30_Witness ==
    \E c \in Slots :
        /\ conns[c] # Idle
        /\ conns[c].pc = "write"
        /\ conns[c].req = Some([type |-> "reload"])
        /\ conns[c].raw.val.kind = "toml"
        /\ conns[c].resp.val.type = "err"
        /\ conns[c].resp.val.message.path = config_path
        /\ conns[c].resp.val.message.error.source.what
              \notin {"read_failed", "parse_failed"}

(***************************************************************************)
(* src/ipc/mod.rs: the wire frame.  A Request or a Response is a record    *)
(* whose field `type` is the serde tag of its variant; a String is a       *)
(* sequence of codes, a u64 a natural number, an Option None or Some(x).   *)
(***************************************************************************)
\* the bytes of the field names, variant tags and JSON literals that the
\* serde attributes of the message types give
utf8 ==
    [type |-> <<116, 121, 112, 101>>,
     process |-> <<112, 114, 111, 99, 101, 115, 115>>,
     domain |-> <<100, 111, 109, 97, 105, 110>>,
     uptime_ms |-> <<117, 112, 116, 105, 109, 101, 95, 109, 115>>,
     config_path |-> <<99, 111, 110, 102, 105, 103, 95, 112, 97, 116, 104>>,
     egress |-> <<101, 103, 114, 101, 115, 115>>,
     id |-> <<105, 100>>,
     kind |-> <<107, 105, 110, 100>>,
     endpoint |-> <<101, 110, 100, 112, 111, 105, 110, 116>>,
     socket |-> <<115, 111, 99, 107, 101, 116>>,
     egress_count |-> <<101, 103, 114, 101, 115, 115, 95, 99, 111, 117, 110, 116>>,
     running |-> <<114, 117, 110, 110, 105, 110, 103>>,
     ipc_requests |-> <<105, 112, 99, 95, 114, 101, 113, 117, 101, 115, 116, 115>>,
     reload_ok |-> <<114, 101, 108, 111, 97, 100, 95, 111, 107>>,
     reload_err |-> <<114, 101, 108, 111, 97, 100, 95, 101, 114, 114>>,
     decision |-> <<100, 101, 99, 105, 115, 105, 111, 110>>,
     reason |-> <<114, 101, 97, 115, 111, 110>>,
     source |-> <<115, 111, 117, 114, 99, 101>>,
     rule_egress |-> <<114, 117, 108, 101, 95, 101, 103, 114, 101, 115, 115>>,
     matcher |-> <<109, 97, 116, 99, 104, 101, 114>>,
     pattern |-> <<112, 97, 116, 116, 101, 114, 110>>,
     message |-> <<109, 101, 115, 115, 97, 103, 101>>,
     status |-> <<115, 116, 97, 116, 117, 115>>,
     reload |-> <<114, 101, 108, 111, 97, 100>>,
     stop |-> <<115, 116, 111, 112>>,
     explain |-> <<101, 120, 112, 108, 97, 105, 110>>,
     diagnostics |-> <<100, 105, 97, 103, 110, 111, 115, 116, 105, 99, 115>>,
     ok_status |-> <<111, 107, 95, 115, 116, 97, 116, 117, 115>>,
     ok_reload |-> <<111, 107, 95, 114, 101, 108, 111, 97, 100>>,
     ok_stop |-> <<111, 107, 95, 115, 116, 111, 112>>,
     ok_explain |-> <<111, 107, 95, 101, 120, 112, 108, 97, 105, 110>>,
     ok_diagnostics |-> <<111, 107, 95, 100, 105, 97, 103, 110, 111, 115, 116, 105, 99, 115>>,
     err |-> <<101, 114, 114>>,
     block_app |-> <<98, 108, 111, 99, 107, 95, 97, 112, 112>>,
     block_domain |-> <<98, 108, 111, 99, 107, 95, 100, 111, 109, 97, 105, 110>>,
     domain_rule |-> <<100, 111, 109, 97, 105, 110, 95, 114, 117, 108, 101>>,
     app_rule |-> <<97, 112, 112, 95, 114, 117, 108, 101>>,
     default |-> <<100, 101, 102, 97, 117, 108, 116>>,
     exact |-> <<101, 120, 97, 99, 116>>,
     suffix |-> <<115, 117, 102, 102, 105, 120>>,
     null |-> <<110, 117, 108, 108>>,
     true |-> <<116, 114, 117, 101>>,
     false |-> <<102, 97, 108, 115, 101>>]

hex_digit(n) == IF n < 10 THEN 48 + n ELSE 87 + n

\* format_escaped_str escaping the quote and the backslash only
escape_char_quotes_only(c) ==
    CASE c = 34 -> <<92, 34>>
      [] c = 92 -> <<92, 92>>
      [] OTHER -> <<c>>

\* serde_json, format_escaped_str: one char of a string as it is written
escape_char(c) ==
    CASE c = 34 -> <<92, 34>>
      [] c = 92 -> <<92, 92>>
      [] c = 8 -> <<92, 98>>
      [] c = 12 -> <<92, 102>>
      [] c = 10 -> <<92, 110>>
      [] c = 13 -> <<92, 114>>
      [] c = 9 -> <<92, 116>>
      [] c < 32 /\ c \notin {8, 9, 10, 12, 13} ->
            <<92, 117, 48, 48, hex_digit(c \div 16), hex_digit(c % 16)>>
      [] OTHER -> <<c>>

\* a loop over the items of a sequence: `for x in xs { acc = step(acc, x) }`,
\* evaluated block by block so that the nesting stays shallow on long inputs
fold_left(step(_, _), start, xs) ==
    LET block == 16
        blocks == (Len(xs) + block - 1) \div block
        last_of(k) == IF k * block < Len(xs) THEN k * block ELSE Len(xs)
        within(from, lo, hi) ==
            LET acc[i \in (lo - 1)..hi] ==
                    IF i = lo - 1 THEN from
                    ELSE let_in(acc[i - 1], LAMBDA a : step(a, xs[i]))
            IN acc[hi]
        upto[k \in 0..blocks] ==
            IF k = 0 THEN start
            ELSE let_in(upto[k - 1],
                        LAMBDA a : within(a, (k - 1) * block + 1, last_of(k)))
    IN upto[blocks]

\* the concatenation of the sequences of a sequence
concat(parts) == fold_left(LAMBDA out, part : out \o part, <<>>, parts)

\* parts joined with ','
join_comma(parts) ==
    concat([i \in 1..Len(parts) |-> IF i = 1 THEN parts[i] ELSE <<44>> \o parts[i]])

\* Serialize for String: the quoted, escaped string
ser_str(s) == <<34>> \o concat([i \in 1..Len(s) |-> escape_char(s[i])]) \o <<34>>

\* Serialize for u64 and usize: the decimal digits
ser_u64(n) ==
    LET len == CHOOSE k \in 1..10 : (k = 10 \/ n < 10 ^ k) /\ (k = 1 \/ n >= 10 ^ (k - 1))
    IN [i \in 1..len |-> 48 + ((n \div (10 ^ (len - i))) % 10)]

\* Serialize for bool
ser_bool(b) == IF b THEN utf8.true ELSE utf8.false

\* Serialize for Option<String>: null or the string
ser_opt_str(o) == IF o.some THEN ser_str(o.val) ELSE utf8.null

\* SerializeStruct / SerializeMap: "key":value
ser_entry(key, value) == ser_str(key) \o <<58>> \o value

\* the compact object of the entries, in the order given
ser_object(entries) == <<123>> \o join_comma(entries) \o <<125>>

\* the compact array of the items
ser_array(items) == <<91>> \o join_comma(items) \o <<93>>

\* #[serde(tag = "type", rename_all = "snake_case")]: the tag entry
ser_tag(type) == ser_entry(utf8.type, ser_str(utf8[type]))

\* derive(Serialize) for ExplainRequest: both fields always written
ser_ExplainRequest(x) ==
    <<ser_entry(utf8.process, ser_opt_str(x.process)),
      ser_entry(utf8.domain, ser_opt_str(x.domain))>>

\* derive(Serialize) for Request, internally tagged
ser_Request(req) ==
    IF req.type = "explain"
    THEN ser_object(<<ser_tag(req.type)>> \o ser_ExplainRequest(req))
    ELSE ser_object(<<ser_tag(req.type)>>)

\* derive(Serialize) for EgressInfo
ser_EgressInfo(e) ==
    ser_object(<<ser_entry(utf8.id, ser_str(e.id)),
                 ser_entry(utf8.kind, ser_str(e.kind)),
                 ser_entry(utf8.endpoint, ser_opt_str(e.endpoint))>>)

\* derive(Serialize) for StatusResponse
ser_StatusResponse(s) ==
    <<ser_entry(utf8.uptime_ms, ser_u64(s.uptime_ms)),
      ser_entry(utf8.config_path, ser_str(s.config_path)),
      ser_entry(utf8.egress,
                ser_array([i \in 1..Len(s.egress) |-> ser_EgressInfo(s.egress[i])]))>>

\* derive(Serialize) for DiagnosticsResponse
ser_DiagnosticsResponse(d) ==
    <<ser_entry(utf8.uptime_ms, ser_u64(d.uptime_ms)),
      ser_entry(utf8.config_path, ser_str(d.config_path)),
      ser_entry(utf8.socket, ser_str(d.socket)),
      ser_entry(utf8.egress_count, ser_u64(d.egress_count)),
      ser_entry(utf8.running, ser_bool(d.running)),
      ser_entry(utf8.ipc_requests, ser_u64(d.ipc_requests)),
      ser_entry(utf8.reload_ok, ser_u64(d.reload_ok)),
      ser_entry(utf8.reload_err, ser_u64(d.reload_err))>>

\* derive(Serialize) for MatcherInfo: kind is renamed "type"
ser_MatcherInfo(m) ==
    ser_object(<<ser_entry(utf8.type, ser_str(utf8[m.type])),
                 ser_entry(utf8.pattern, ser_str(m.pattern))>>)

\* derive(Serialize) for DecisionInfo: rule_egress and matcher are skipped
\* when None (skip_serializing_if = "Option::is_none")
ser_DecisionInfo(d) ==
    ser_object(<<ser_entry(utf8.egress, ser_str(d.egress)),
                 ser_entry(utf8.reason, ser_str(d.reason)),
                 ser_entry(utf8.source, ser_str(utf8[d.source]))>>
               \o (IF d.rule_egress.some
                   THEN <<ser_entry(utf8.rule_egress, ser_str(d.rule_egress.val))>>
                   ELSE <<>>)
               \o (IF d.matcher.some
                   THEN <<ser_entry(utf8.matcher, ser_MatcherInfo(d.matcher.val))>>
                   ELSE <<>>))

\* derive(Serialize) for ExplainResponse
ser_ExplainResponse(x) == <<ser_entry(utf8.decision, ser_DecisionInfo(x.decision))>>

\* derive(Serialize) for ErrorResponse
ser_ErrorResponse(e) == <<ser_entry(utf8.message, ser_str(e.message))>>

\* derive(Serialize) for Response, internally tagged
ser_Response(resp) ==
    ser_object(<<ser_tag(resp.type)>> \o
               (CASE resp.type = "ok_status" -> ser_StatusResponse(resp)
                  [] resp.type = "ok_explain" -> ser_ExplainResponse(resp)
                  [] resp.type = "ok_diagnostics" -> ser_DiagnosticsResponse(resp)
                  [] resp.type = "err" -> ser_ErrorResponse(resp)
                  [] resp.type \in {"ok_reload", "ok_stop"} -> <<>>))

\* serde_json::to_vec(value), value a Request or a Response
to_vec(side, value) ==
    IF side = "request" THEN ser_Request(value) ELSE ser_Response(value)

\* write_json_line: what w.write_all is given
write_json_line(side, value) == to_vec(side, value) \o <<10>>

\* BufRead::read_line: the bytes up to and including the first '\n', or all
\* of them when there is none
read_line(stream) ==
    LET ends == {i \in 1..Len(stream) : stream[i] = 10}
    IN IF ends = {} THEN stream ELSE SubSeq(stream, 1, min_of(ends))

(***************************************************************************)
(* serde_json::from_str, the text: the scanner of strings, numbers,        *)
(* literals and punctuation, then the nesting of objects and arrays.       *)
(***************************************************************************)
json_whitespace == {32, 9, 10, 13}
json_punct == {123, 125, 91, 93, 58, 44}
json_number_chars == (48..57) \cup {45, 43, 46, 101, 69}
json_letters == 97..122

\* the char an escape letter stands for: \" \\ \/ \b \f \n \r \t
unescape == (34 :> 34) @@ (92 :> 92) @@ (47 :> 47) @@ (98 :> 8) @@ (102 :> 12)
            @@ (110 :> 10) @@ (114 :> 13) @@ (116 :> 9)

is_hex(c) == c \in (48..57) \cup (97..102) \cup (65..70)

hex_value(c) == IF c \in 48..57 THEN c - 48 ELSE IF c \in 97..102 THEN c - 87 ELSE c - 55

token(t, v) == [t |-> t, v |-> v]

scan_start == [ok |-> TRUE, mode |-> "out", cur |-> <<>>, hex |-> <<>>, toks |-> <<>>]

\* the number or literal being scanned ends: it becomes a token
scan_flush(st) ==
    IF st.mode \in {"num", "lit"}
    THEN [st EXCEPT !.toks = Append(@, token(st.mode, st.cur)), !.mode = "out", !.cur = <<>>]
    ELSE st

\* one char met between tokens
scan_out(st, ch) ==
    IF ch \in json_whitespace THEN st
    ELSE IF ch \in json_punct THEN [st EXCEPT !.toks = Append(@, token("punct", <<ch>>))]
    ELSE IF ch = 34 THEN [st EXCEPT !.mode = "str", !.cur = <<>>]
    ELSE IF ch \in (48..57) \cup {45} THEN [st EXCEPT !.mode = "num", !.cur = <<ch>>]
    ELSE IF ch \in json_letters THEN [st EXCEPT !.mode = "lit", !.cur = <<ch>>]
    ELSE [st EXCEPT !.ok = FALSE]

scan_step(st, ch) ==
    IF ~st.ok THEN st
    ELSE CASE st.mode = "str" ->
                IF ch = 34
                THEN [st EXCEPT !.toks = Append(@, token("str", st.cur)),
                                !.mode = "out", !.cur = <<>>]
                ELSE IF ch = 92 THEN [st EXCEPT !.mode = "esc"]
                ELSE IF ch < 32 THEN [st EXCEPT !.ok = FALSE]
                ELSE [st EXCEPT !.cur = Append(@, ch)]
           [] st.mode = "esc" ->
                IF ch \in DOMAIN unescape
                THEN [st EXCEPT !.cur = Append(@, unescape[ch]), !.mode = "str"]
                ELSE IF ch = 117 THEN [st EXCEPT !.mode = "hex", !.hex = <<>>]
                ELSE [st EXCEPT !.ok = FALSE]
           [] st.mode = "hex" ->
                IF ~is_hex(ch) THEN [st EXCEPT !.ok = FALSE]
                ELSE IF Len(st.hex) < 3 THEN [st EXCEPT !.hex = Append(@, hex_value(ch))]
                ELSE [st EXCEPT
                        !.cur = Append(@, st.hex[1] * 4096 + st.hex[2] * 256
                                          + st.hex[3] * 16 + hex_value(ch)),
                        !.hex = <<>>, !.mode = "str"]
           [] st.mode = "num" /\ ch \in json_number_chars -> [st EXCEPT !.cur = Append(@, ch)]
           [] st.mode = "lit" /\ ch \in json_letters -> [st EXCEPT !.cur = Append(@, ch)]
           [] OTHER -> scan_out(scan_flush(st), ch)

\* the tokens of the text, or the failure to scan it
scan(text) ==
    let_in(fold_left(scan_step, scan_start, text), LAMBDA st :
      IF st.mode \in {"str", "esc", "hex"} THEN [st EXCEPT !.ok = FALSE]
      ELSE scan_flush(st))

\* a JSON value: a string, a number (its text), a literal, an object (its
\* entries <<key, value>> in order) or an array (its items in order)
json(j, v) == [j |-> j, v |-> v]

frame(kind, st) == [kind |-> kind, st |-> st, key |-> <<>>, items |-> <<>>]

nest_start == [ok |-> TRUE, stack |-> <<>>, done |-> None]

nest_fail(n) == [n EXCEPT !.ok = FALSE]

\* a complete value takes its place: the whole text, the value of the
\* pending key, or the next item
nest_value(n, value) ==
    IF n.stack = <<>>
    THEN IF n.done.some THEN nest_fail(n) ELSE [n EXCEPT !.done = Some(value)]
    ELSE let_in(n.stack[Len(n.stack)], LAMBDA top :
           IF top.kind = "obj" /\ top.st = "value"
           THEN [n EXCEPT !.stack[Len(n.stack)] =
                    [top EXCEPT !.items = Append(@, <<top.key, value>>),
                                !.st = "comma_or_end"]]
           ELSE IF top.kind = "arr" /\ top.st \in {"value_or_end", "value"}
           THEN [n EXCEPT !.stack[Len(n.stack)] =
                    [top EXCEPT !.items = Append(@, value), !.st = "comma_or_end"]]
           ELSE nest_fail(n))

nest_pop(n) == [n EXCEPT !.stack = SubSeq(@, 1, Len(@) - 1)]

nest_key_expected(n) ==
    /\ n.stack # <<>>
    /\ n.stack[Len(n.stack)].kind = "obj"
    /\ n.stack[Len(n.stack)].st \in {"key_or_end", "key"}

nest_punct(n, ch) ==
    IF ch = 123 THEN [n EXCEPT !.stack = Append(@, frame("obj", "key_or_end"))]
    ELSE IF ch = 91 THEN [n EXCEPT !.stack = Append(@, frame("arr", "value_or_end"))]
    ELSE IF n.stack = <<>> THEN nest_fail(n)
    ELSE let_in(n.stack[Len(n.stack)], LAMBDA top :
           CASE ch = 125 /\ top.kind = "obj" /\ top.st \in {"key_or_end", "comma_or_end"} ->
                    nest_value(nest_pop(n), json("obj", top.items))
             [] ch = 93 /\ top.kind = "arr" /\ top.st \in {"value_or_end", "comma_or_end"} ->
                    nest_value(nest_pop(n), json("arr", top.items))
             [] ch = 58 /\ top.kind = "obj" /\ top.st = "colon" ->
                    [n EXCEPT !.stack[Len(n.stack)].st = "value"]
             [] ch = 44 /\ top.st = "comma_or_end" ->
                    [n EXCEPT !.stack[Len(n.stack)].st =
                                 IF top.kind = "obj" THEN "key" ELSE "value"]
             [] OTHER -> nest_fail(n))

nest_step(n, tok) ==
    IF ~n.ok THEN n
    ELSE IF tok.t = "punct" THEN nest_punct(n, tok.v[1])
    ELSE IF nest_key_expected(n)
    THEN IF tok.t = "str"
         THEN [n EXCEPT !.stack[Len(n.stack)].key = tok.v,
                        !.stack[Len(n.stack)].st = "colon"]
         ELSE nest_fail(n)
    ELSE IF tok.t = "lit" /\ tok.v \notin {utf8.null, utf8.true, utf8.false}
    THEN nest_fail(n)
    ELSE nest_value(n, json(tok.t, tok.v))

\* serde_json's reading of a text: the one JSON value it is, or an error
parse_json(text) ==
    let_in(scan(text), LAMBDA sc :
      IF ~sc.ok THEN Err("syntax")
      ELSE let_in(fold_left(nest_step, nest_start, sc.toks), LAMBDA n :
             IF n.ok /\ n.stack = <<>> /\ n.done.some THEN Ok(n.done.val)
             ELSE Err("syntax")))

(***************************************************************************)
(* derive(Deserialize) for the message types                               *)
(***************************************************************************)
\* the entry of a struct's field among the entries of an object
field(entries, key) ==
    let_in({i \in 1..Len(entries) : entries[i][1] = key}, LAMBDA hits :
      IF hits = {} THEN [found |-> "missing"]
      ELSE IF Cardinality(hits) > 1 THEN [found |-> "duplicate"]
      ELSE [found |-> "one", value |-> entries[min_of(hits)][2]])

is_null(value) == value.j = "lit" /\ value.v = utf8.null

\* Deserialize for String
de_string(value) == IF value.j = "str" THEN Ok(value.v) ELSE Err("invalid type")

\* the number a text of decimal digits denotes
parse_decimal(s) ==
    LET value[i \in 0..Len(s)] == IF i = 0 THEN 0 ELSE value[i - 1] * 10 + (s[i] - 48)
    IN value[Len(s)]

\* Deserialize for u64 and usize: an integer without sign, fraction or exponent
de_u64(value) ==
    IF /\ value.j = "num"
       /\ \A i \in 1..Len(value.v) : value.v[i] \in 48..57
       /\ (Len(value.v) = 1 \/ value.v[1] # 48)
    THEN Ok(parse_decimal(value.v))
    ELSE Err("invalid type")

\* Deserialize for bool
de_bool(value) ==
    IF value.j = "lit" /\ value.v \in {utf8.true, utf8.false}
    THEN Ok(value.v = utf8.true)
    ELSE Err("invalid type")

\* a unit variant of an enum with rename_all = "snake_case"
de_variant(value, variants) ==
    IF value.j = "str" /\ \E name \in variants : utf8[name] = value.v
    THEN Ok(CHOOSE name \in variants : utf8[name] = value.v)
    ELSE Err("unknown variant")

\* a field of a type that is not an Option: it must be there
de_required(f, de(_)) ==
    IF f.found = "one" THEN de(f.value) ELSE Err(f.found)

\* a field of type Option<T>: None when missing or null
de_optional(f, de(_)) ==
    IF f.found = "missing" THEN Ok(None)
    ELSE IF f.found = "duplicate" THEN Err(f.found)
    ELSE IF is_null(f.value) THEN Ok(None)
    ELSE let_in(de(f.value), LAMBDA r : IF r.ok THEN Ok(Some(r.val)) ELSE r)

\* the struct of the fields when every one of them was read
de_struct(names, results) ==
    IF \A i \in 1..Len(names) : results[i].ok
    THEN Ok([name \in {names[i] : i \in 1..Len(names)} |->
                results[CHOOSE i \in 1..Len(names) : names[i] = name].val])
    ELSE Err("invalid struct")

de_ExplainRequest(entries) ==
    de_struct(<<"process", "domain">>,
              <<de_optional(field(entries, utf8.process), de_string),
                de_optional(field(entries, utf8.domain), de_string)>>)

RequestTags == {"status", "reload", "stop", "explain", "diagnostics"}

\* derive(Deserialize) for Request: the tag, then the variant from the rest
de_Request(value) ==
    IF value.j # "obj" THEN Err("invalid type")
    ELSE let_in(de_required(field(value.v, utf8.type), LAMBDA t : de_variant(t, RequestTags)),
                LAMBDA tag :
           IF ~tag.ok THEN tag
           ELSE IF tag.val = "explain"
           THEN let_in(de_ExplainRequest(value.v), LAMBDA x :
                  IF x.ok THEN Ok([type |-> tag.val] @@ x.val) ELSE x)
           ELSE Ok([type |-> tag.val]))

de_EgressInfo(value) ==
    IF value.j # "obj" THEN Err("invalid type")
    ELSE de_struct(<<"id", "kind", "endpoint">>,
                   <<de_required(field(value.v, utf8.id), de_string),
                     de_required(field(value.v, utf8.kind), de_string),
                     de_optional(field(value.v, utf8.endpoint), de_string)>>)

\* Deserialize for Vec<EgressInfo>
de_egress_list(value) ==
    IF value.j # "arr" THEN Err("invalid type")
    ELSE let_in([i \in 1..Len(value.v) |-> de_EgressInfo(value.v[i])], LAMBDA items :
           IF \A i \in 1..Len(items) : items[i].ok
           THEN Ok([i \in 1..Len(items) |-> items[i].val])
           ELSE Err("invalid item"))

de_StatusResponse(entries) ==
    de_struct(<<"uptime_ms", "config_path", "egress">>,
              <<de_required(field(entries, utf8.uptime_ms), de_u64),
                de_required(field(entries, utf8.config_path), de_string),
                de_required(field(entries, utf8.egress), de_egress_list)>>)

de_DiagnosticsResponse(entries) ==
    de_struct(<<"uptime_ms", "config_path", "socket", "egress_count", "running",
                "ipc_requests", "reload_ok", "reload_err">>,
              <<de_required(field(entries, utf8.uptime_ms), de_u64),
                de_required(field(entries, utf8.config_path), de_string),
                de_required(field(entries, utf8.socket), de_string),
                de_required(field(entries, utf8.egress_count), de_u64),
                de_required(field(entries, utf8.running), de_bool),
                de_required(field(entries, utf8.ipc_requests), de_u64),
                de_required(field(entries, utf8.reload_ok), de_u64),
                de_required(field(entries, utf8.reload_err), de_u64)>>)

MatcherKinds == {"exact", "suffix"}

de_MatcherInfo(value) ==
    IF value.j # "obj" THEN Err("invalid type")
    ELSE de_struct(<<"type", "pattern">>,
                   <<de_required(field(value.v, utf8.type),
                                 LAMBDA t : de_variant(t, MatcherKinds)),
                     de_required(field(value.v, utf8.pattern), de_string)>>)

DecisionSources == {"block_app", "block_domain", "domain_rule", "app_rule", "default"}

de_DecisionInfo(value) ==
    IF value.j # "obj" THEN Err("invalid type")
    ELSE de_struct(<<"egress", "reason", "source", "rule_egress", "matcher">>,
                   <<de_required(field(value.v, utf8.egress), de_string),
                     de_required(field(value.v, utf8.reason), de_string),
                     de_required(field(value.v, utf8.source),
                                 LAMBDA s : de_variant(s, DecisionSources)),
                     de_optional(field(value.v, utf8.rule_egress), de_string),
                     de_optional(field(value.v, utf8.matcher), de_MatcherInfo)>>)

de_ExplainResponse(entries) ==
    de_struct(<<"decision">>, <<de_required(field(entries, utf8.decision), de_DecisionInfo)>>)

de_ErrorResponse(entries) ==
    de_struct(<<"message">>, <<de_required(field(entries, utf8.message), de_string)>>)

ResponseTags == {"ok_status", "ok_reload", "ok_stop", "ok_explain", "ok_diagnostics", "err"}

\* derive(Deserialize) for Response: the tag, then the variant from the rest
de_Response(value) ==
    IF value.j # "obj" THEN Err("invalid type")
    ELSE let_in(de_required(field(value.v, utf8.type), LAMBDA t : de_variant(t, ResponseTags)),
                LAMBDA tag :
           IF ~tag.ok THEN tag
           ELSE IF tag.val \in {"ok_reload", "ok_stop"} THEN Ok([type |-> tag.val])
           ELSE let_in(CASE tag.val = "ok_status" -> de_StatusResponse(value.v)
                         [] tag.val = "ok_explain" -> de_ExplainResponse(value.v)
                         [] tag.val = "ok_diagnostics" -> de_DiagnosticsResponse(value.v)
                         [] tag.val = "err" -> de_ErrorResponse(value.v),
                       LAMBDA x : IF x.ok THEN Ok([type |-> tag.val] @@ x.val) ELSE x))

\* serde_json::from_str::<T>(&line), T being Request or Response
from_str(side, line) ==
    let_in(parse_json(line), LAMBDA parsed :
      IF ~parsed.ok THEN Err("failed to deserialize JSON")
      ELSE let_in(IF side = "request" THEN de_Request(parsed.val) ELSE de_Response(parsed.val),
                  LAMBDA r : IF r.ok THEN r ELSE Err("failed to deserialize JSON")))

\* read_json_line: one line of the stream, deserialized
read_json_line(side, stream) == from_str(side, read_line(stream))

(***************************************************************************)
(* One message written by write_json_line and read back by read_json_line. *)
(***************************************************************************)
\* strings put in the messages: empty, plain, with a quote, with a backslash
\* followed by n, with a line feed, with control chars, with JSON syntax in
\* it, and the word null
WS_EMPTY == <<>>
WS_PLAIN == <<118, 112, 110>>
WS_QUOTE == <<97, 34, 98>>
WS_BACKSLASH_N == <<92, 110>>
WS_NEWLINE == <<120, 10, 121>>
WS_CONTROL == <<1, 9>>
WS_INJECT == <<34, 44, 34, 116, 121, 112, 101, 34, 58, 34, 111, 107, 95, 115, 116, 111, 112>>
WS_NULL == <<110, 117, 108, 108>>

WireStrings ==
    {WS_EMPTY, WS_PLAIN, WS_QUOTE, WS_BACKSLASH_N, WS_NEWLINE, WS_CONTROL, WS_INJECT, WS_NULL}

OptionOf(S) == {None} \cup {Some(x) : x \in S}

WireNumbers == {0, 9, 10, 123, 2147483647}

WireRequests ==
    {[type |-> t] : t \in {"status", "reload", "stop", "diagnostics"}}
    \cup {[type |-> "explain", process |-> p, domain |-> d] :
            p \in OptionOf(WireStrings), d \in OptionOf(WireStrings)}

WireEgressInfos ==
    {[id |-> WS_PLAIN, kind |-> WS_QUOTE, endpoint |-> None],
     [id |-> WS_NEWLINE, kind |-> WS_PLAIN, endpoint |-> Some(WS_INJECT)],
     [id |-> WS_EMPTY, kind |-> WS_NULL, endpoint |-> Some(WS_EMPTY)]}

WireEgressLists ==
    {<<>>} \cup {<<e>> : e \in WireEgressInfos}
           \cup {<<e, f>> : e \in WireEgressInfos, f \in WireEgressInfos}

WireMatchers ==
    {[type |-> k, pattern |-> p] : k \in MatcherKinds, p \in {WS_PLAIN, WS_NEWLINE}}

WireDecisions ==
    {[egress |-> WS_PLAIN, reason |-> r, source |-> s, rule_egress |-> e, matcher |-> m] :
        r \in {WS_QUOTE, WS_NEWLINE}, s \in DecisionSources,
        e \in OptionOf({WS_PLAIN, WS_NULL}), m \in OptionOf(WireMatchers)}

WireResponses ==
    {[type |-> t] : t \in {"ok_reload", "ok_stop"}}
    \cup {[type |-> "err", message |-> m] : m \in WireStrings}
    \cup {[type |-> "ok_status", uptime_ms |-> n, config_path |-> p, egress |-> l] :
            n \in {0, 2147483647}, p \in {WS_PLAIN, WS_BACKSLASH_N}, l \in WireEgressLists}
    \cup {[type |-> "ok_diagnostics", uptime_ms |-> n, config_path |-> WS_PLAIN,
           socket |-> s, egress_count |-> c, running |-> r,
           ipc_requests |-> n, reload_ok |-> c, reload_err |-> 0] :
            n \in WireNumbers, s \in {WS_PLAIN, WS_CONTROL}, c \in {0, 10},
            r \in BOOLEAN}
    \cup {[type |-> "ok_explain", decision |-> d] : d \in WireDecisions}

\* the daemon as constructed, and a message about to be written
WireInit ==
    /\ cfg = CfgA
    /\ file = Toml(cfg)
    /\ latest = cfg
    /\ running = TRUE
    /\ ipc_requests = 0
    /\ reload_ok = 0
    /\ reload_err = 0
    /\ main_pc = "loop"
    /\ conns = [c \in Slots |-> Idle]
    /\ accepted = 0
    /\ received = 0
    /\ \E side \in {"request", "response"} :
         \E value \in (IF side = "request" THEN WireRequests ELSE WireResponses) :
            call = [stage |-> "value", side |-> side, value |-> value,
                    stream |-> <<>>, result |-> None]

\* write_json_line(&mut stream, value)
WireWrite ==
    /\ call.stage = "value"
    /\ call' = [call EXCEPT !.stage = "written",
                            !.stream = write_json_line(call.side, call.value)]
    /\ UNCHANGED <<file, cfg, running, ipc_requests, reload_ok, reload_err,
                   main_pc, conns, accepted, received, latest>>

\* read_json_line(reader) at the other end of the stream
WireRead ==
    /\ call.stage = "written"
    /\ call' = [call EXCEPT !.stage = "read",
                            !.result = Some(read_json_line(call.side, call.stream))]
    /\ UNCHANGED <<file, cfg, running, ipc_requests, reload_ok, reload_err,
                   main_pc, conns, accepted, received, latest>>

WireNext == WireWrite \/ WireRead

WireSpec == WireInit /\ [][WireNext]_vars

(***************************************************************************)
(* C31: the wire framing round trip.  For every Request and every Response *)
(* write_json_line emits one JSON value followed by one '\n', with no      *)
(* other line feed in the frame, and read_json_line applied to what was    *)
(* written returns a value equal to the original: the same variant and the *)
(* same fields, the absent optional ones absent.                           *)
(***************************************************************************)
OneLine(frame_bytes) ==
    /\ frame_bytes # <<>>
    /\ {i \in 1..Len(frame_bytes) : frame_bytes[i] = 10} = {Len(frame_bytes)}

OneJsonValue(frame_bytes) ==
    /\ parse_json(SubSeq(frame_bytes, 1, Len(frame_bytes) - 1)).ok
    /\ frame_bytes[1] = 123
    /\ frame_bytes[Len(frame_bytes) - 1] = 125

C31_WireRoundTrip ==
    /\ call.stage \in {"written", "read"}
         => OneLine(call.stream) /\ OneJsonValue(call.stream)
    /\ call.stage = "read"
         => /\ call.result.val.ok
            /\ call.result.val.val = call.value

\* an ok_explain response with rule_egress and matcher absent and a line feed
\* in its reason was written and read back
C31_Witness ==
    /\ call.stage = "read"
    /\ call.side = "response"
    /\ call.value.type = "ok_explain"
    /\ call.value.decision.rule_egress = None
    /\ call.value.decision.matcher = None
    /\ call.value.decision.reason = WS_NEWLINE
    /\ call.result.val.ok
    /\ call.result.val.val.decision.matcher = None

(***************************************************************************)
(* src/ipc/mod.rs, src/bin/policy-routerd.rs, src/bin/policy-routerctl.rs: *)
(* the control endpoint.  A Name is its kind (namespaced or filesystem)    *)
(* and the string it was built from.                                       *)
(***************************************************************************)
SOCKET_PRINT_NAME == <<112, 111, 108, 105, 99, 121, 45, 114, 111, 117, 116, 101, 114, 100, 46, 115, 111, 99, 107>>    \* "policy-routerd.sock"
SOCKET_FS_FALLBACK == <<47, 116, 109, 112, 47, 112, 111, 108, 105, 99, 121, 45, 114, 111, 117, 116, 101, 114, 100, 46, 115, 111, 99, 107>>    \* "/tmp/policy-routerd.sock"

\* looks_like_fs_path
looks_like_fs_path(s) ==
    \/ (s # <<>> /\ s[1] = 47)
    \/ (s # <<>> /\ s[1] = 46)
    \/ \E i \in 1..Len(s) : s[i] = 92
    \/ \E i \in 1..Len(s) : s[i] = 58

\* socket_name_with_override; is_supported is GenericNamespaced::is_supported()
socket_name_with_override(override_raw, is_supported) ==
    LET raw == IF override_raw.some THEN override_raw.val
               ELSE IF is_supported THEN SOCKET_PRINT_NAME ELSE SOCKET_FS_FALLBACK
    IN IF is_supported /\ ~looks_like_fs_path(raw)
       THEN Ok(<<[kind |-> "namespaced", name |-> raw], None>>)
       ELSE Ok(<<[kind |-> "fs", name |-> raw], Some(raw)>>)

\* Option::or
option_or(a, b) == IF a.some THEN a ELSE b

\* policy-routerd resolve_ipc_socket with the environment taking precedence
resolve_ipc_socket_env_first(cli_socket, env_socket, is_supported) ==
    socket_name_with_override(option_or(env_socket, cli_socket), is_supported)

\* policy-routerd, resolve_ipc_socket; env_socket is std::env::var(..).ok()
resolve_ipc_socket(cli_socket, env_socket, is_supported) ==
    socket_name_with_override(option_or(cli_socket, env_socket), is_supported)

\* policy-routerctl, resolve_ipc_socket: the name alone
routerctl_resolve_ipc_socket(cli_socket, env_socket, is_supported) ==
    let_in(socket_name_with_override(option_or(cli_socket, env_socket), is_supported),
           LAMBDA r : IF r.ok THEN Ok(r.val[1]) ELSE r)

\* cleanup_fs_socket: the paths remove_file is called with, after `removed`
cleanup_fs_socket(removed, path) == IF path.some THEN Append(removed, path.val) ELSE removed

SOCK_ABS == <<47, 114, 117, 110, 47, 112, 114, 46, 115, 111, 99, 107>>    \* "/run/pr.sock"
SOCK_REL == <<46, 47, 112, 114>>    \* "./pr"
SOCK_BACKSLASH == <<112, 92, 114>>    \* "p\r"
SOCK_COLON == <<99, 58, 112, 114>>    \* "c:pr"
SOCK_PLAIN == <<112, 114>>    \* "pr"
SOCK_INNER_DOT == <<112, 46, 114>>    \* "p.r"
SOCK_INNER_SLASH == <<112, 47, 114>>    \* "p/r"
SOCK_EMPTY == <<>>    \* ""

SocketStrings ==
    {SOCK_ABS, SOCK_REL, SOCK_BACKSLASH, SOCK_COLON, SOCK_PLAIN, SOCK_INNER_DOT,
     SOCK_INNER_SLASH, SOCK_EMPTY}

\* a daemon and a control client started with the same --socket value, the
\* same environment and on the same platform; nothing resolved yet
SocketInit ==
    /\ cfg = CfgA
    /\ file = Toml(cfg)
    /\ latest = cfg
    /\ running = TRUE
    /\ ipc_requests = 0
    /\ reload_ok = 0
    /\ reload_err = 0
    /\ main_pc = "loop"
    /\ conns = [c \in Slots |-> Idle]
    /\ accepted = 0
    /\ received = 0
    /\ \E cli_socket \in OptionOf(SocketStrings), env_socket \in OptionOf(SocketStrings),
          is_supported \in BOOLEAN :
         call = [cli_socket |-> cli_socket, env_socket |-> env_socket,
                 is_supported |-> is_supported, daemon |-> "new", daemon_name |-> None,
                 fs_socket_path |-> None, removed |-> <<>>, client_name |-> None]

\* policy-routerd main: resolve_ipc_socket, cleanup_fs_socket, then the listener
SocketDaemonStart ==
    /\ call.daemon = "new"
    /\ LET resolved == resolve_ipc_socket(call.cli_socket, call.env_socket, call.is_supported)
       IN call' = [call EXCEPT !.daemon = "listening",
                               !.daemon_name = Some(resolved.val[1]),
                               !.fs_socket_path = resolved.val[2],
                               !.removed = cleanup_fs_socket(@, resolved.val[2])]
    /\ UNCHANGED <<file, cfg, running, ipc_requests, reload_ok, reload_err,
                   main_pc, conns, accepted, received, latest>>

\* policy-routerd main, after the accept loop: cleanup_fs_socket
SocketDaemonStop ==
    /\ call.daemon = "listening"
    /\ call' = [call EXCEPT !.daemon = "stopped",
                            !.removed = cleanup_fs_socket(@, call.fs_socket_path)]
    /\ UNCHANGED <<file, cfg, running, ipc_requests, reload_ok, reload_err,
                   main_pc, conns, accepted, received, latest>>

\* policy-routerctl main: resolve_ipc_socket, then Stream::connect(name)
SocketClientResolve ==
    /\ ~call.client_name.some
    /\ call' = [call EXCEPT !.client_name =
                    Some(routerctl_resolve_ipc_socket(call.cli_socket, call.env_socket,
                                                      call.is_supported).val)]
    /\ UNCHANGED <<file, cfg, running, ipc_requests, reload_ok, reload_err,
                   main_pc, conns, accepted, received, latest>>

SocketNext == SocketDaemonStart \/ SocketDaemonStop \/ SocketClientResolve

SocketSpec == SocketInit /\ [][SocketNext]_vars

(***************************************************************************)
(* C32: control endpoint resolution.  From the same inputs the daemon and  *)
(* the control client resolve the same endpoint: the --socket value if     *)
(* given, else the POLICY_ROUTER_SOCKET variable if set, else the built-in *)
(* default.  The resolved string is a filesystem socket path iff it starts *)
(* with '/' or '.', or contains a backslash or ':' (or namespaced names    *)
(* are unsupported), and only then is a path, that string, removed at      *)
(* daemon start and again at daemon stop.                                  *)
(***************************************************************************)
ResolvedString ==
    IF call.cli_socket.some THEN call.cli_socket.val
    ELSE IF call.env_socket.some THEN call.env_socket.val
    ELSE IF call.is_supported THEN SOCKET_PRINT_NAME
    ELSE SOCKET_FS_FALLBACK

FilesystemBacked ==
    \/ ~call.is_supported
    \/ ResolvedString # <<>> /\ Head(ResolvedString) \in {47, 46}
    \/ {92, 58} \cap {ResolvedString[i] : i \in 1..Len(ResolvedString)} # {}

ExpectedName ==
    [kind |-> IF FilesystemBacked THEN "fs" ELSE "namespaced", name |-> ResolvedString]

ExpectedRemovals ==
    IF ~FilesystemBacked THEN <<>>
    ELSE CASE call.daemon = "new" -> <<>>
           [] call.daemon = "listening" -> <<ResolvedString>>
           [] call.daemon = "stopped" -> <<ResolvedString, ResolvedString>>

C32_EndpointResolution ==
    /\ call.daemon_name.some => call.daemon_name.val = ExpectedName
    /\ call.client_name.some => call.client_name.val = ExpectedName
    /\ (call.daemon_name.some /\ call.client_name.some)
          => call.daemon_name.val = call.client_name.val
    /\ call.removed = ExpectedRemovals

\* --socket names a plain name, the environment a path, namespaced names are
\* supported: daemon and client both resolved the plain name, the daemon has
\* stopped and no path was removed
C32_Witness ==
    /\ call.cli_socket = Some(SOCK_INNER_SLASH)
    /\ call.env_socket = Some(SOCK_ABS)
    /\ call.is_supported
    /\ call.daemon = "stopped"
    /\ call.client_name = Some([kind |-> "namespaced", name |-> SOCK_INNER_SLASH])
    /\ call.daemon_name = call.client_name
    /\ call.removed = <<>>

(***************************************************************************)
(* C33: block by app is evaluated before block by domain across all the    *)
(* block egresses.  When the process name matches an app pattern of a      *)
(* block egress X and the domain matches a domain pattern of a block       *)
(* egress Y, decide returns X (the least such X) with the reason           *)
(* BlockByApp and the app pattern that matched, also when Y comes before   *)
(* X in the order of ids.                                                  *)
(***************************************************************************)
C33_BlockAppBeforeBlockDomain ==
    call.called =>
        \A X \in AppHits(cfg, BlockKind, call.process_name),
           Y \in DomainHits(cfg, BlockKind, call.domain) :
            /\ call.decision.reason.tag = "BlockByApp"
            /\ call.decision.egress = LeastId(AppHits(cfg, BlockKind, call.process_name))
            /\ ~LexLess(X, call.decision.egress)
            /\ call.decision.reason.egress = call.decision.egress
            /\ AppPatternMatches(call.decision.reason.pattern, call.process_name.val)

\* the block egress whose app pattern matched was returned although a block
\* egress with a smaller id has a domain pattern that matches the domain
C33_Witness ==
    /\ call.called
    /\ call.decision.reason.tag = "BlockByApp"
    /\ \E Y \in DomainHits(cfg, BlockKind, call.domain) :
          /\ Y # call.decision.egress
          /\ LexLess(Y, call.decision.egress)
          /\ Y \notin AppHits(cfg, BlockKind, call.process_name)

(***************************************************************************)
(* C34: steps that need an absent input are skipped.  decide gives the     *)
(* reason BlockByApp or AppRule only when a process name was supplied and  *)
(* BlockByDomain or DomainRule only when a domain was supplied; with the   *)
(* process name absent the result is what the domain steps and the         *)
(* default alone give, with the domain absent what the app steps and the   *)
(* default alone give.                                                     *)
(***************************************************************************)
\* reason and egress from the domain steps and the default alone
DomainStepsAlone(c, domain) ==
    IF DomainHits(c, BlockKind, domain) # {}
    THEN <<"BlockByDomain", LeastId(DomainHits(c, BlockKind, domain))>>
    ELSE IF DomainHits(c, NonBlockKinds, domain) # {}
    THEN <<"DomainRule", Preferred(c, DomainHits(c, NonBlockKinds, domain))>>
    ELSE <<"Default", c.defaults.egress>>

\* reason and egress from the app steps and the default alone
AppStepsAlone(c, name) ==
    IF AppHits(c, BlockKind, name) # {}
    THEN <<"BlockByApp", LeastId(AppHits(c, BlockKind, name))>>
    ELSE IF AppHits(c, NonBlockKinds, name) # {}
    THEN <<"AppRule", Preferred(c, AppHits(c, NonBlockKinds, name))>>
    ELSE <<"Default", c.defaults.egress>>

C34_AbsentInputSkipsSteps ==
    call.called =>
        /\ call.decision.reason.tag \in {"BlockByApp", "AppRule"} => call.process_name.some
        /\ call.decision.reason.tag \in {"BlockByDomain", "DomainRule"} => call.domain.some
        /\ ~call.process_name.some
              => <<call.decision.reason.tag, call.decision.egress>>
                    = DomainStepsAlone(cfg, call.domain)
        /\ ~call.domain.some
              => <<call.decision.reason.tag, call.decision.egress>>
                    = AppStepsAlone(cfg, call.process_name)

\* no process name was supplied, the config has app rules, also under a block
\* egress, and the domain matched a pattern of a block egress
C34_Witness ==
    /\ call.called
    /\ ~call.process_name.some
    /\ call.domain.some
    /\ \E id \in DOMAIN cfg.rules.app : cfg.egress[id].kind = "block"
    /\ call.decision.reason.tag = "BlockByDomain"

(***************************************************************************)
(* C35: concurrent Reloads.  Reload R1 reads the policy file before Reload *)
(* R2 reads it and both succeed.  Once both have completed the live config *)
(* is the one loaded by whichever of the two published last: the one R2    *)
(* loaded when R2's store follows R1's, the one R1 loaded (the older file  *)
(* contents) when R1's store follows R2's.                                 *)
(***************************************************************************)
ReloadCompleted(c) ==
    /\ conns[c] # Idle
    /\ conns[c].pc = "write"
    /\ conns[c].req = Some([type |-> "reload"])
    /\ conns[c].resp = Some([type |-> "ok_reload"])

\* R1 and R2 have both completed with success, R1 having read the file first
BothReloaded(R1, R2) ==
    /\ R1 # R2
    /\ ReloadCompleted(R1)
    /\ ReloadCompleted(R2)
    /\ R1 \in conns[R2].after

Loaded(c) == conns[c].raw.val.cfg

C35_LastStoreWins ==
    \A R1 \in Slots, R2 \in Slots :
        BothReloaded(R1, R2)
          => /\ conns[R1].last # conns[R2].last
             /\ conns[R2].last => cfg = Loaded(R2)
             /\ conns[R1].last => cfg = Loaded(R1)

\* R1 read the file, the file was edited, R2 read it and published, and R1
\* published after that: both have completed and the live config is the
\* older one
C35_Witness ==
    \E R1 \in Slots, R2 \in Slots :
        /\ BothReloaded(R1, R2)
        /\ conns[R1].last
        /\ Loaded(R1) # Loaded(R2)
        /\ file = conns[R2].raw.val
        /\ cfg = Loaded(R1)
        /\ reload_ok = 2

\* C35 as claimed: once both have completed the live config is the one R2
\* loaded, in every interleaving of the two workers
C35_NeverRegress ==
    \A R1 \in Slots, R2 \in Slots :
        BothReloaded(R1, R2) => cfg = Loaded(R2)


(***************************************************************************)
(* C36: validation's non-emptiness check agrees with the engine's          *)
(* normalization.  On a config that validate() accepted, a process name    *)
(* whose normal form is empty ("", " ", "/", "\\") or a domain whose normal  *)
(* form is empty ("", ".") matches no rule: decide given only such an      *)
(* input returns the Default decision.                                     *)
(***************************************************************************)
EmptyInputOnly ==
    /\ call.called
    /\ validate(cfg).ok
    /\ \/ /\ call.process_name.some
          /\ call.domain = None
          /\ normalize_process_name(call.process_name.val) = <<>>
       \/ /\ call.domain.some
          /\ call.process_name = None
          /\ NormalDomain(call.domain.val) = <<>>

C36_EmptyInputIsDefault ==
    EmptyInputOnly => call.decision = decide_default(cfg)

\* the app pattern "/" passes validate() and is met by the process name ""
C36_Witness ==
    /\ EmptyInputOnly
    /\ call.process_name = Some(<<>>)
    /\ cfg.rules.app = (ID_V :> << <<47>> >>)
    /\ call.decision.reason = [tag |-> "AppRule", pattern |-> <<47>>, egress |-> ID_V]

\* the domain half of the claim holds: "" and "." meet no domain pattern
C36_EmptyDomainIsDefault ==
    (EmptyInputOnly /\ call.domain.some) => call.decision = decide_default(cfg)


(***************************************************************************)
(* C37: decisions are internally consistent.  For every validated config   *)
(* and input, decision.egress is the egress named inside the reason; the   *)
(* reasons BlockByApp and BlockByDomain come only with an egress of kind    *)
(* block and the reasons AppRule and DomainRule only with an egress of a    *)
(* non-block kind; the pattern of the reason is one filed under that        *)
(* egress in the table the reason names, so a list filed under a block      *)
(* egress never yields AppRule or DomainRule and a list filed under a       *)
(* non-block egress never yields a Block reason.                            *)
(***************************************************************************)
FiledUnder(table, id, pattern) ==
    /\ id \in DOMAIN table
    /\ \E i \in 1..Len(table[id]) : trim(table[id][i]) = pattern \/ table[id][i] = pattern

C37_DecisionConsistent ==
    (call.called /\ validate(cfg).ok) =>
        LET d == call.decision
            r == d.reason
        IN /\ d.egress = r.egress
           /\ r.tag \in {"BlockByApp", "BlockByDomain", "DomainRule", "AppRule", "Default"}
           /\ r.tag \in {"BlockByApp", "BlockByDomain"} => cfg.egress[d.egress].kind = "block"
           /\ r.tag \in {"AppRule", "DomainRule"} => cfg.egress[d.egress].kind \in NonBlockKinds
           /\ r.tag \in {"BlockByApp", "AppRule"} => FiledUnder(cfg.rules.app, r.egress, r.pattern)
           /\ r.tag \in {"BlockByDomain", "DomainRule"} =>
                  FiledUnder(cfg.rules.domain, r.egress, r.pattern)

\* a block egress and a non-block egress both carry a list that matches the
\* process name, and the answer is the block one with a Block reason
C37_Witness ==
    /\ call.called
    /\ validate(cfg).ok
    /\ call.decision.reason.tag = "BlockByApp"
    /\ cfg.egress[call.decision.egress].kind = "block"
    /\ AppHits(cfg, NonBlockKinds, call.process_name) # {}
    /\ AppHits(cfg, BlockKind, call.process_name) = {call.decision.egress}


(***************************************************************************)
(* C38: the counter ordering invariant.  Under every interleaving of the   *)
(* workers reload_ok + reload_err <= ipc_requests, and no counter ever     *)
(* decreases.  Every Reload request adds exactly 1 to exactly one of       *)
(* reload_ok and reload_err, after its own increment of ipc_requests: the  *)
(* reloads counted in ipc_requests and not yet in a reload counter are     *)
(* the workers between the dispatch and the response.  reload_ok is        *)
(* incremented only after the new config has been published.               *)
(***************************************************************************)
ReloadInProgress ==
    {c \in Slots : /\ conns[c] # Idle
                   /\ conns[c].pc \in {"dispatch", "reload_loaded", "reload_stored"}
                   /\ conns[c].req = Some([type |-> "reload"])}

\* the worker whose step moves a reload counter: a Reload between its load
\* and its response, that has counted its request
ReloadCounter(c) ==
    /\ conns[c] # Idle
    /\ conns[c].req = Some([type |-> "reload"])
    /\ conns[c].pc \in {"reload_loaded", "reload_stored"}
    /\ conns'[c] # Idle
    /\ conns'[c].pc = "write"

C38_CounterOrdering ==
    [][/\ reload_ok' + reload_err' + Cardinality(ReloadInProgress') <= ipc_requests'
       /\ ipc_requests' >= ipc_requests
       /\ reload_ok' >= reload_ok
       /\ reload_err' >= reload_err
       /\ (reload_ok' + reload_err') - (reload_ok + reload_err) \in {0, 1}
       /\ \A c \in Slots :
             ReloadCounter(c) <=>
                (c \in ReloadInProgress /\ c \notin ReloadInProgress' /\
                 (reload_ok' + reload_err') = (reload_ok + reload_err) + 1)
       /\ reload_ok' # reload_ok =>
             \E c \in Slots :
                /\ ReloadCounter(c)
                /\ conns[c].pc = "reload_stored"
                /\ conns[c].next.val.ok
                /\ conns[c].next.val.val \in conns[c].live
                /\ conns'[c].resp = Some([type |-> "ok_reload"])
                /\ reload_err' = reload_err
       /\ reload_err' # reload_err =>
             \E c \in Slots :
                /\ ReloadCounter(c)
                /\ conns[c].pc = "reload_loaded"
                /\ ~conns[c].next.val.ok
                /\ reload_ok' = reload_ok]_vars

\* two Reloads served side by side, one failed and one succeeded, a third
\* request none: every request is in ipc_requests and each Reload in one
\* reload counter
C38_Witness ==
    /\ ipc_requests = 2
    /\ reload_ok = 1
    /\ reload_err = 1
    /\ \A c \in Slots :
          conns[c] # Idle /\ conns[c].pc = "write" /\ conns[c].req = Some([type |-> "reload"])


(***************************************************************************)
(* decide() with lists of several patterns: the rules of one table, filed  *)
(* under one or more of a block egress "b", a singbox egress "v" and the   *)
(* direct default "n", each list holding distinct patterns in any order    *)
(***************************************************************************)
\* patterns in one list
MaxPatterns == 2

\* "d", "s.d" and ".S.D."
OrderDomainPatterns == {<<100>>, <<115, 46, 100>>, PAT_DOT_S_D_DOT}
\* "y", "Y" and "x"
OrderAppPatterns == {<<121>>, <<89>>, <<120>>}

\* "s.d", "d", "a.s.d" and "x"
OrderDomains == {<<115, 46, 100>>, <<100>>, <<97, 46, 115, 46, 100>>, <<120>>}
\* "y", "C:\Dir\Y", "x" and "z"
OrderNames == {<<121>>, <<67, 58, 92, 68, 105, 114, 92, 89>>, <<120>>, <<122>>}

\* the lists of distinct patterns out of P
OrderLists(P) ==
    {l \in UNION {[1..n -> P] : n \in 1..MaxPatterns} :
        \A i, j \in 1..Len(l) : l[i] = l[j] => i = j}

OrderEgress ==
    (ID_B :> [kind |-> "block", endpoint |-> None]) @@
    (ID_V :> [kind |-> "singbox", endpoint |-> Some(EP_SOCKS_H_1)]) @@
    (ID_N :> [kind |-> "direct", endpoint |-> None])

\* the tables a rule section can be: up to MaxRules keys, a list under each
OrderTables(P) ==
    UNION {[K -> OrderLists(P)] :
             K \in {K \in SUBSET {ID_B, ID_V, ID_N} : K # {} /\ Cardinality(K) <= MaxRules}}

OrderConfig(app, domain) ==
    [defaults |-> [egress |-> ID_N],
     egress |-> OrderEgress,
     rules |-> [app |-> app, domain |-> domain]]

OrderConfigs ==
    {OrderConfig(app, EmptyRules) : app \in OrderTables(OrderAppPatterns)} \cup
    {OrderConfig(EmptyRules, domain) : domain \in OrderTables(OrderDomainPatterns)}

OrderInit ==
    /\ cfg \in OrderConfigs
    /\ load_from_path(Toml(cfg)).ok
    /\ file = Toml(cfg)
    /\ latest = cfg
    /\ running = TRUE
    /\ ipc_requests = 0
    /\ reload_ok = 0
    /\ reload_err = 0
    /\ main_pc = "loop"
    /\ conns = [c \in Slots |-> Idle]
    /\ accepted = 0
    /\ received = 0
    /\ call = NoCall

OrderNext ==
    \/ \E domain \in OrderDomains : MatchDomain(domain)
    \/ \E process_name \in OrderNames : MatchApp(process_name)

OrderSpec == OrderInit /\ [][OrderNext]_vars

(***************************************************************************)
(* C39: within the pattern list of one egress the first pattern in list    *)
(* order that matches gives the reported pattern and match kind: with the  *)
(* domain patterns ["d", "s.d"] and the domain "s.d" the reason carries    *)
(* the pattern "d" with kind Suffix, not the later Exact match.  The       *)
(* choice of egress does not depend on the order of the patterns inside a  *)
(* list.                                                                   *)
(***************************************************************************)
FirstDomainHit(list, domain) ==
    list[min_of({i \in 1..Len(list) : DomainPatternMatches(list[i], domain)})]

FirstAppHit(list, name) ==
    list[min_of({i \in 1..Len(list) : AppPatternMatches(list[i], name)})]

\* the pattern as the match compares it: normalized, one leading '.' dropped
PatternSuffix(pattern) ==
    LET suffix_raw == NormalDomain(pattern)
    IN IF suffix_raw # <<>> /\ suffix_raw[1] = 46 THEN Tail(suffix_raw) ELSE suffix_raw

\* the list under id in another order
Reordered(table, id) ==
    {[table EXCEPT ![id] = [i \in 1..Len(table[id]) |-> table[id][order[i]]]] :
        order \in {o \in [1..Len(table[id]) -> 1..Len(table[id])] :
                     \A i, j \in 1..Len(table[id]) : o[i] = o[j] => i = j}}

C39_FirstPatternInListOrder ==
    call.called =>
        LET d == call.decision
            r == d.reason
        IN /\ r.tag \in {"DomainRule", "BlockByDomain"} =>
                 LET first == FirstDomainHit(cfg.rules.domain[r.egress], call.domain.val)
                 IN /\ r.pattern = trim(first)
                    /\ r.match_kind =
                          IF NormalDomain(call.domain.val) = PatternSuffix(first)
                          THEN "Exact" ELSE "Suffix"
           /\ r.tag \in {"AppRule", "BlockByApp"} =>
                 r.pattern = FirstAppHit(cfg.rules.app[r.egress], call.process_name.val)
           /\ \A id \in DOMAIN cfg.rules.domain :
                 \A domain \in Reordered(cfg.rules.domain, id) :
                    decide(OrderConfig(cfg.rules.app, domain), call.process_name,
                           call.domain).egress = d.egress
           /\ \A id \in DOMAIN cfg.rules.app :
                 \A app \in Reordered(cfg.rules.app, id) :
                    decide(OrderConfig(app, cfg.rules.domain), call.process_name,
                           call.domain).egress = d.egress

\* ["d", "s.d"] against "s.d": the earlier pattern is reported, as a Suffix
\* match, although the later one equals the domain
C39_Witness ==
    /\ call.called
    /\ call.domain = Some(<<115, 46, 100>>)
    /\ ID_V \in DOMAIN cfg.rules.domain
    /\ cfg.rules.domain[ID_V] = << <<100>>, <<115, 46, 100>> >>
    /\ call.decision.egress = ID_V
    /\ call.decision.reason =
          [tag |-> "DomainRule", pattern |-> <<100>>, match_kind |-> "Suffix", egress |-> ID_V]

=============================================================================
